---- MODULE Spec2Model ----
(***************************************************************************)
(* rforth: the evaluator (src/src/eval.rs), its arithmetic and comparison  *)
(* operations (src/src/number_ops.rs) and its stack-shuffle operations     *)
(* (src/src/stack_ops.rs), as a state machine that executes one operation  *)
(* of a ForthOp sequence per step.                                         *)
(*                                                                         *)
(* Indices are 0-based as in the source: the operation at index idx of a   *)
(* sequence ops is ops[idx + 1] here.                                      *)
(***************************************************************************)
EXTENDS Integers, Sequences, FiniteSets, TLC

(***************************************************************************)
(* Bounds of the model.                                                    *)
(***************************************************************************)
\* Width of the machine integer of the model (the source's i64 has 64 bits).
WordBits == 12
\* Largest depth of the operand stack eval is entered with.
MaxDepth == 4
\* Largest number of nested eval calls (Rust call frames) the model follows.
MaxCallDepth == 4
\* Largest loop bound pushed by the generated loop programs.
MaxLimit == 3
\* Number of steps the reference run of a program may take.
Fuel == 60
\* Largest length of the generated sequences of pushes and arithmetic.
MaxArithLen == 3
\* The number of lines of a session.
MaxLines == 3
\* The number of free tokens of a token sequence given to parse.
MaxTokens == 3

(***************************************************************************)
(* Strings.  A word is a sequence of one-character strings, so that the    *)
(* case conversions of the source are computed and not assumed.            *)
(***************************************************************************)
LowerLetters ==
    << "a", "b", "c", "d", "e", "f", "g", "h", "i", "j", "k", "l", "m",
       "n", "o", "p", "q", "r", "s", "t", "u", "v", "w", "x", "y", "z" >>

UpperLetters ==
    << "A", "B", "C", "D", "E", "F", "G", "H", "I", "J", "K", "L", "M",
       "N", "O", "P", "Q", "R", "S", "T", "U", "V", "W", "X", "Y", "Z" >>

char_to_uppercase(c) ==
    IF \E k \in DOMAIN LowerLetters : LowerLetters[k] = c
    THEN UpperLetters[CHOOSE k \in DOMAIN LowerLetters : LowerLetters[k] = c]
    ELSE c

char_to_lowercase(c) ==
    IF \E k \in DOMAIN UpperLetters : UpperLetters[k] = c
    THEN LowerLetters[CHOOSE k \in DOMAIN UpperLetters : UpperLetters[k] = c]
    ELSE c

to_uppercase(s) == [k \in DOMAIN s |-> char_to_uppercase(s[k])]

to_lowercase(s) == [k \in DOMAIN s |-> char_to_lowercase(s[k])]

(***************************************************************************)
(* ForthOp (parser.rs): one record per variant.                            *)
(***************************************************************************)
Push(n) == [op |-> "Push", n |-> n]
Add == [op |-> "Add"]
Subtract == [op |-> "Subtract"]
Multiply == [op |-> "Multiply"]
Divide == [op |-> "Divide"]
Mod == [op |-> "Mod"]
Dup == [op |-> "Dup"]
Drop == [op |-> "Drop"]
Swap == [op |-> "Swap"]
Over == [op |-> "Over"]
Rot == [op |-> "Rot"]
QDup == [op |-> "QDup"]
TwoDup == [op |-> "TwoDup"]
TwoDrop == [op |-> "TwoDrop"]
TwoSwap == [op |-> "TwoSwap"]
TwoOver == [op |-> "TwoOver"]
MinusRot == [op |-> "MinusRot"]
PrintOp == [op |-> "Print"]
PrintStack == [op |-> "PrintStack"]
Word(s) == [op |-> "Word", s |-> s]
Define(name, body) == [op |-> "Define", name |-> name, body |-> body]
IfElse(then_ops, else_ops) ==
    [op |-> "IfElse", then_ops |-> then_ops, else_ops |-> else_ops]
Eq == [op |-> "Eq"]
Lt == [op |-> "Lt"]
Gt == [op |-> "Gt"]
Do == [op |-> "Do"]
Loop == [op |-> "Loop"]
I == [op |-> "I"]

(***************************************************************************)
(* EvalError (eval.rs).  NoError is Ok(()); Panic is not an EvalError: it  *)
(* is the abort of the process by an arithmetic overflow check.            *)
(***************************************************************************)
NoError == [kind |-> "Ok"]
StackUnderflow == [kind |-> "StackUnderflow"]
DivisionByZero == [kind |-> "DivisionByZero"]
UnknownWord(s) == [kind |-> "UnknownWord", word |-> s]
CompileOnlyWord(s) == [kind |-> "CompileOnlyWord", word |-> s]
LoopStackUnderflow == [kind |-> "LoopStackUnderflow"]
ControlStructureMismatch == [kind |-> "ControlStructureMismatch"]
Panic == [kind |-> "Panic"]

(***************************************************************************)
(* Machine integers.                                                       *)
(***************************************************************************)
IntMin == -(2 ^ (WordBits - 1))
IntMax == (2 ^ (WordBits - 1)) - 1

InRange(r) == IntMin <= r /\ r <= IntMax

\* Two's complement wrap-around of a result that left the range.
Wrap(r) == ((r - IntMin) % (2 ^ WordBits)) + IntMin

Abs(a) == IF a < 0 THEN -a ELSE a

\* Rust's integer division: the quotient is rounded toward zero.
TruncDiv(a, b) ==
    IF (a < 0) = (b < 0) THEN Abs(a) \div Abs(b) ELSE -(Abs(a) \div Abs(b))

\* Rust's remainder: it has the sign of the dividend.
TruncRem(a, b) == a - b * TruncDiv(a, b)

\* Result<(), EvalError> of an operation on the stack, with the stack it leaves.
Ok(stack) == [err |-> NoError, stack |-> stack]
Err(e, stack) == [err |-> e, stack |-> stack]

\* x + y, x - y, x * y on the machine integer: a result outside the range
\* aborts when the build checks overflow and wraps when it does not.
Arith(r, stack, overflow_checks) ==
    IF InRange(r) THEN Ok(Append(stack, r))
    ELSE IF overflow_checks THEN Err(Panic, stack)
    ELSE Ok(Append(stack, Wrap(r)))

Last(s) == s[Len(s)]
Front(s) == SubSeq(s, 1, Len(s) - 1)

(***************************************************************************)
(* number_ops.rs.  Each operation pops b, then a, with `?` after each pop: *)
(* the values popped before a failure stay popped.                         *)
(***************************************************************************)
add(stack, overflow_checks) ==
    IF Len(stack) = 0 THEN Err(StackUnderflow, stack)
    ELSE LET b == Last(stack)
             s1 == Front(stack)
         IN IF Len(s1) = 0 THEN Err(StackUnderflow, s1)
            ELSE LET a == Last(s1)
                     s2 == Front(s1)
                 IN Arith(a + b, s2, overflow_checks)

\* subtract with its operands taken in the other order.
subtract_swapped(stack, overflow_checks) ==
    IF Len(stack) < 2 THEN Err(StackUnderflow, << >>)
    ELSE Arith(Last(stack) - stack[Len(stack) - 1],
               SubSeq(stack, 1, Len(stack) - 2), overflow_checks)

subtract(stack, overflow_checks) ==
    IF Len(stack) = 0 THEN Err(StackUnderflow, stack)
    ELSE LET b == Last(stack)
             s1 == Front(stack)
         IN IF Len(s1) = 0 THEN Err(StackUnderflow, s1)
            ELSE LET a == Last(s1)
                     s2 == Front(s1)
                 IN Arith(a - b, s2, overflow_checks)

multiply(stack, overflow_checks) ==
    IF Len(stack) = 0 THEN Err(StackUnderflow, stack)
    ELSE LET b == Last(stack)
             s1 == Front(stack)
         IN IF Len(s1) = 0 THEN Err(StackUnderflow, s1)
            ELSE LET a == Last(s1)
                     s2 == Front(s1)
                 IN Arith(a * b, s2, overflow_checks)

\* divide without the test of the divisor: a zero divisor gives 0.
divide_unchecked(stack) ==
    IF Len(stack) < 2 THEN Err(StackUnderflow, << >>)
    ELSE LET b == Last(stack)
             a == stack[Len(stack) - 1]
         IN Ok(Append(SubSeq(stack, 1, Len(stack) - 2),
                      IF b = 0 THEN 0 ELSE TruncDiv(a, b)))

\* a / b aborts in every build when the quotient leaves the range.
divide(stack) ==
    IF Len(stack) = 0 THEN Err(StackUnderflow, stack)
    ELSE LET b == Last(stack)
             s1 == Front(stack)
         IN IF Len(s1) = 0 THEN Err(StackUnderflow, s1)
            ELSE LET a == Last(s1)
                     s2 == Front(s1)
                 IN IF b = 0 THEN Err(DivisionByZero, s2)
                    ELSE IF InRange(TruncDiv(a, b))
                         THEN Ok(Append(s2, TruncDiv(a, b)))
                         ELSE Err(Panic, s2)

\* number_ops::mod_op is called by eval but its text is not in number_ops.rs:
\* it pops two operands, fails on fewer, and fails on a zero divisor, which
\* is checked before the operation executes.
mod_op(stack) ==
    IF Len(stack) < 2 THEN Err(StackUnderflow, stack)
    ELSE LET b == stack[Len(stack)]
             a == stack[Len(stack) - 1]
         IN IF b = 0 THEN Err(DivisionByZero, stack)
            ELSE Ok(Append(SubSeq(stack, 1, Len(stack) - 2), TruncRem(a, b)))

\* eq pushing 1 for true.
eq_one(stack) ==
    IF Len(stack) = 0 THEN Err(StackUnderflow, stack)
    ELSE LET b == Last(stack)
             s1 == Front(stack)
         IN IF Len(s1) = 0 THEN Err(StackUnderflow, s1)
            ELSE LET a == Last(s1)
                     s2 == Front(s1)
                 IN Ok(Append(s2, IF a = b THEN 1 ELSE 0))

eq(stack) ==
    IF Len(stack) = 0 THEN Err(StackUnderflow, stack)
    ELSE LET b == Last(stack)
             s1 == Front(stack)
         IN IF Len(s1) = 0 THEN Err(StackUnderflow, s1)
            ELSE LET a == Last(s1)
                     s2 == Front(s1)
                 IN Ok(Append(s2, IF a = b THEN -1 ELSE 0))

lt(stack) ==
    IF Len(stack) = 0 THEN Err(StackUnderflow, stack)
    ELSE LET b == Last(stack)
             s1 == Front(stack)
         IN IF Len(s1) = 0 THEN Err(StackUnderflow, s1)
            ELSE LET a == Last(s1)
                     s2 == Front(s1)
                 IN Ok(Append(s2, IF a < b THEN -1 ELSE 0))

gt(stack) ==
    IF Len(stack) = 0 THEN Err(StackUnderflow, stack)
    ELSE LET b == Last(stack)
             s1 == Front(stack)
         IN IF Len(s1) = 0 THEN Err(StackUnderflow, s1)
            ELSE LET a == Last(s1)
                     s2 == Front(s1)
                 IN Ok(Append(s2, IF a > b THEN -1 ELSE 0))

(***************************************************************************)
(* stack_ops.rs.  check_depth! returns StackUnderflow before anything is   *)
(* popped.                                                                 *)
(***************************************************************************)
check_depth(stack, depth) == Len(stack) >= depth

\* The stack without its n top values.
Below(stack, n) == SubSeq(stack, 1, Len(stack) - n)

\* The k-th value from the top, k = 1 for the top.
Nth(stack, k) == stack[Len(stack) - k + 1]

dup(stack) ==
    IF ~check_depth(stack, 1) THEN Err(StackUnderflow, stack)
    ELSE Ok(Append(stack, Last(stack)))

drop_(stack) ==
    IF ~check_depth(stack, 1) THEN Err(StackUnderflow, stack)
    ELSE Ok(Front(stack))

swap(stack) ==
    IF ~check_depth(stack, 2) THEN Err(StackUnderflow, stack)
    ELSE LET n2 == Nth(stack, 1)
             n1 == Nth(stack, 2)
         IN Ok(Below(stack, 2) \o << n2, n1 >>)

over(stack) ==
    IF ~check_depth(stack, 2) THEN Err(StackUnderflow, stack)
    ELSE LET n1 == stack[Len(stack) - 1]
         IN Ok(Append(stack, n1))

\* rot turning the three values the other way.
rot_reversed(stack) ==
    IF ~check_depth(stack, 3) THEN Err(StackUnderflow, stack)
    ELSE Ok(Below(stack, 3) \o << Nth(stack, 1), Nth(stack, 3), Nth(stack, 2) >>)

rot(stack) ==
    IF ~check_depth(stack, 3) THEN Err(StackUnderflow, stack)
    ELSE LET n3 == Nth(stack, 1)
             n2 == Nth(stack, 2)
             n1 == Nth(stack, 3)
         IN Ok(Below(stack, 3) \o << n2, n3, n1 >>)

q_dup(stack) ==
    IF ~check_depth(stack, 1) THEN Err(StackUnderflow, stack)
    ELSE IF Last(stack) # 0 THEN Ok(Append(stack, Last(stack)))
         ELSE Ok(stack)

two_dup(stack) ==
    IF ~check_depth(stack, 2) THEN Err(StackUnderflow, stack)
    ELSE LET n2 == Last(stack)
             n1 == stack[Len(stack) - 1]
         IN Ok(stack \o << n1, n2 >>)

two_drop(stack) ==
    IF ~check_depth(stack, 2) THEN Err(StackUnderflow, stack)
    ELSE Ok(Front(Front(stack)))

two_swap(stack) ==
    IF ~check_depth(stack, 4) THEN Err(StackUnderflow, stack)
    ELSE LET n4 == Nth(stack, 1)
             n3 == Nth(stack, 2)
             n2 == Nth(stack, 3)
             n1 == Nth(stack, 4)
         IN Ok(Below(stack, 4) \o << n3, n4, n1, n2 >>)

two_over(stack) ==
    IF ~check_depth(stack, 4) THEN Err(StackUnderflow, stack)
    ELSE LET n2 == stack[Len(stack) - 2]
             n1 == stack[Len(stack) - 3]
         IN Ok(stack \o << n1, n2 >>)

minus_rot(stack) ==
    IF ~check_depth(stack, 3) THEN Err(StackUnderflow, stack)
    ELSE LET n3 == Nth(stack, 1)
             n2 == Nth(stack, 2)
             n1 == Nth(stack, 3)
         IN Ok(Below(stack, 3) \o << n3, n1, n2 >>)

(***************************************************************************)
(* eval.rs: find_matching_end.                                             *)
(***************************************************************************)
RECURSIVE find_matching_scan(_, _, _, _, _)
\* The while loop of find_matching_end from current_idx on, at depth `depth`:
\* [err, idx], idx the index after the closing operation.
find_matching_scan(ops, current_idx, depth, open_op, close_op) ==
    IF ~(current_idx < Len(ops))
    THEN [err |-> ControlStructureMismatch, idx |-> 0]
    ELSE IF ops[current_idx + 1] = open_op
         THEN find_matching_scan(ops, current_idx + 1, depth + 1, open_op, close_op)
         ELSE IF ops[current_idx + 1] = close_op
              THEN IF depth - 1 = 0
                   THEN [err |-> NoError, idx |-> current_idx + 1]
                   ELSE find_matching_scan(ops, current_idx + 1, depth - 1,
                                           open_op, close_op)
              ELSE find_matching_scan(ops, current_idx + 1, depth, open_op, close_op)

\* find_matching_end stopping at the first close_op, whatever the nesting.
find_first_end(ops, start_idx, open_op, close_op) ==
    IF \E j \in (start_idx + 1)..(Len(ops) - 1) : ops[j + 1] = close_op
    THEN [err |-> NoError,
          idx |-> 1 + CHOOSE j \in (start_idx + 1)..(Len(ops) - 1) :
                        /\ ops[j + 1] = close_op
                        /\ \A i \in (start_idx + 1)..(j - 1) : ops[i + 1] # close_op]
    ELSE [err |-> ControlStructureMismatch, idx |-> 0]

find_matching_end(ops, start_idx, open_op, close_op) ==
    find_matching_scan(ops, start_idx + 1, 1, open_op, close_op)

(***************************************************************************)
(* eval.rs: eval.  The state of the evaluator is a record m:               *)
(*   calls               the active calls of eval, outermost first, each   *)
(*                       with its ops and its idx;                         *)
(*   stack, dictionary, loop_control_stack                                 *)
(*                       the three arguments eval mutates;                 *)
(*   error               NoError, or the Err being returned through the    *)
(*                       active calls;                                     *)
(*   output              what Print and PrintStack have written;           *)
(*   overflow_checks     whether the build checks arithmetic overflow.     *)
(***************************************************************************)
Top(m) == m.calls[Len(m.calls)]

\* let op = &ops[idx]
CurOp(m) == Top(m).ops[Top(m).idx + 1]

\* idx = next_idx
Goto(m, next_idx) == [m EXCEPT !.calls[Len(m.calls)].idx = next_idx]

\* return Err(e), or `?` on an Err
Fail(m, e) == [m EXCEPT !.error = e]

\* An arm `f(stack)?` with next_idx = idx + 1.
Simple(m, r) ==
    IF r.err = NoError
    THEN Goto([m EXCEPT !.stack = r.stack], Top(m).idx + 1)
    ELSE Fail([m EXCEPT !.stack = r.stack], r.err)

\* insert that keeps the body of a name that is already defined.
insert_if_absent(dictionary, name, body) ==
    [k \in (DOMAIN dictionary) \cup {name} |->
        IF k \in DOMAIN dictionary THEN dictionary[k] ELSE body]

\* dictionary.insert(name, body)
insert(dictionary, name, body) ==
    [k \in (DOMAIN dictionary) \cup {name} |->
        IF k = name THEN body ELSE dictionary[k]]

CompileOnlyWords ==
    { << "i", "f" >>, << "e", "l", "s", "e" >>, << "t", "h", "e", "n" >>,
      << "d", "o" >>, << "l", "o", "o", "p" >>, << "i" >> }

eval_Push(m) == Goto([m EXCEPT !.stack = Append(@, CurOp(m).n)], Top(m).idx + 1)

eval_Add(m) == Simple(m, add(m.stack, m.overflow_checks))
eval_Subtract(m) == Simple(m, subtract(m.stack, m.overflow_checks))
eval_Multiply(m) == Simple(m, multiply(m.stack, m.overflow_checks))
eval_Divide(m) == Simple(m, divide(m.stack))
eval_Mod(m) == Simple(m, mod_op(m.stack))
eval_Eq(m) == Simple(m, eq(m.stack))
eval_Lt(m) == Simple(m, lt(m.stack))
eval_Gt(m) == Simple(m, gt(m.stack))
eval_Dup(m) == Simple(m, dup(m.stack))
eval_Drop(m) == Simple(m, drop_(m.stack))
eval_Swap(m) == Simple(m, swap(m.stack))
eval_Over(m) == Simple(m, over(m.stack))
eval_Rot(m) == Simple(m, rot(m.stack))
eval_QDup(m) == Simple(m, q_dup(m.stack))
eval_TwoDup(m) == Simple(m, two_dup(m.stack))
eval_TwoDrop(m) == Simple(m, two_drop(m.stack))
eval_TwoSwap(m) == Simple(m, two_swap(m.stack))
eval_TwoOver(m) == Simple(m, two_over(m.stack))
eval_MinusRot(m) == Simple(m, minus_rot(m.stack))

eval_Print(m) ==
    IF Len(m.stack) = 0 THEN Fail(m, StackUnderflow)
    ELSE Goto([m EXCEPT !.stack = Front(@),
                        !.output = Append(@, [top |-> Last(m.stack)])],
              Top(m).idx + 1)

\* The PrintStack arm draining the stack it prints.
eval_PrintStack_draining(m) ==
    Goto([m EXCEPT !.output = Append(@, [len |-> Len(m.stack), items |-> m.stack]),
                   !.stack = << >>],
         Top(m).idx + 1)

eval_PrintStack(m) ==
    Goto([m EXCEPT !.output = Append(@, [len |-> Len(m.stack), items |-> m.stack])],
         Top(m).idx + 1)

\* The Define arm when a call that is executing the replaced body executes
\* the new one from then on.
eval_Define_aliasing(m) ==
    LET name == CurOp(m).name
        old == IF name \in DOMAIN m.dictionary THEN m.dictionary[name] ELSE << >>
    IN Goto([m EXCEPT !.dictionary = insert(@, name, CurOp(m).body),
                      !.calls = [k \in DOMAIN m.calls |->
                                    IF old # << >> /\ m.calls[k].ops = old
                                    THEN [m.calls[k] EXCEPT !.ops = CurOp(m).body]
                                    ELSE m.calls[k]]],
            Top(m).idx + 1)

\* The Define arm replacing the dictionary by the one definition.
eval_Define_forgetting(m) ==
    Goto([m EXCEPT !.dictionary = [k \in { CurOp(m).name } |-> CurOp(m).body]],
         Top(m).idx + 1)

eval_Define(m) ==
    Goto([m EXCEPT !.dictionary = insert(@, CurOp(m).name, CurOp(m).body)],
         Top(m).idx + 1)

\* The I arm taking the frame off the loop-control stack.
eval_I_popping(m) ==
    IF Len(m.loop_control_stack) = 0 THEN Fail(m, LoopStackUnderflow)
    ELSE LET current_index == Last(m.loop_control_stack)[2]
         IN Goto([m EXCEPT !.stack = Append(@, current_index),
                           !.loop_control_stack = Front(@)], Top(m).idx + 1)

\* The I arm reading the frame of the outermost loop.
eval_I_outermost(m) ==
    IF Len(m.loop_control_stack) = 0 THEN Fail(m, LoopStackUnderflow)
    ELSE LET current_index == m.loop_control_stack[1][2]
         IN Goto([m EXCEPT !.stack = Append(@, current_index)], Top(m).idx + 1)

eval_I(m) ==
    IF Len(m.loop_control_stack) = 0 THEN Fail(m, LoopStackUnderflow)
    ELSE LET current_index == Last(m.loop_control_stack)[2]
         IN Goto([m EXCEPT !.stack = Append(@, current_index)], Top(m).idx + 1)

\* The Word arm naming the normalized word in UnknownWord.
eval_Word_normalized(m) ==
    LET s == CurOp(m).s
        wl == to_lowercase(s)
        upper_s == to_uppercase(s)
    IN IF wl \in CompileOnlyWords THEN Fail(m, CompileOnlyWord(s))
       ELSE IF upper_s \in DOMAIN m.dictionary
            THEN LET ops_to_run == m.dictionary[upper_s]
                 IN [m EXCEPT !.calls = Append(@, [ops |-> ops_to_run, idx |-> 0])]
            ELSE Fail(m, UnknownWord(upper_s))

\* The Word arm looking the word up as written, without to_uppercase.
eval_Word_as_written(m) ==
    LET s == CurOp(m).s
    IN IF s \in DOMAIN m.dictionary
       THEN [m EXCEPT !.calls = Append(@, [ops |-> m.dictionary[s], idx |-> 0])]
       ELSE Fail(m, UnknownWord(s))

\* The Word arm that finds a word the rest of the sequence defines.
eval_Word_forward(m) ==
    LET s == CurOp(m).s
        wl == to_lowercase(s)
        upper_s == to_uppercase(s)
        later == { k \in DOMAIN Top(m).ops :
                     /\ k > Top(m).idx + 1
                     /\ Top(m).ops[k].op = "Define"
                     /\ Top(m).ops[k].name = upper_s }
    IN IF wl \in CompileOnlyWords THEN Fail(m, CompileOnlyWord(s))
       ELSE IF upper_s \in DOMAIN m.dictionary
            THEN LET ops_to_run == m.dictionary[upper_s]
                 IN [m EXCEPT !.calls = Append(@, [ops |-> ops_to_run, idx |-> 0])]
            ELSE IF later # {}
            THEN LET ops_to_run == Top(m).ops[CHOOSE k \in later : TRUE].body
                 IN [m EXCEPT !.calls = Append(@, [ops |-> ops_to_run, idx |-> 0])]
            ELSE Fail(m, UnknownWord(s))

\* The recursive call of eval on a clone of the body: the caller stays at the
\* Word until the call returns.
eval_Word(m) ==
    LET s == CurOp(m).s
        wl == to_lowercase(s)
        upper_s == to_uppercase(s)
    IN IF wl \in CompileOnlyWords THEN Fail(m, CompileOnlyWord(s))
       ELSE IF upper_s \in DOMAIN m.dictionary
            THEN LET ops_to_run == m.dictionary[upper_s]
                 IN [m EXCEPT !.calls = Append(@, [ops |-> ops_to_run, idx |-> 0])]
            ELSE Fail(m, UnknownWord(s))

\* The IfElse arm taking the then-branch on a positive flag only.
eval_IfElse_positive(m) ==
    IF Len(m.stack) = 0 THEN Fail(m, StackUnderflow)
    ELSE LET flag == Last(m.stack)
             branch == IF flag > 0 THEN CurOp(m).then_ops ELSE CurOp(m).else_ops
         IN [m EXCEPT !.stack = Front(@),
                      !.calls = Append(@, [ops |-> branch, idx |-> 0])]

eval_IfElse(m) ==
    IF Len(m.stack) = 0 THEN Fail(m, StackUnderflow)
    ELSE LET flag == Last(m.stack)
             branch == IF flag # 0 THEN CurOp(m).then_ops ELSE CurOp(m).else_ops
         IN [m EXCEPT !.stack = Front(@),
                      !.calls = Append(@, [ops |-> branch, idx |-> 0])]

eval_Do(m) ==
    IF Len(m.stack) = 0 THEN Fail(m, StackUnderflow)
    ELSE LET start == Last(m.stack)
             s1 == Front(m.stack)
         IN IF Len(s1) = 0 THEN Fail([m EXCEPT !.stack = s1], StackUnderflow)
            ELSE LET limit == Last(s1)
                     m2 == [m EXCEPT !.stack = Front(s1)]
                 IN IF start >= limit
                    THEN LET r == find_matching_end(Top(m).ops, Top(m).idx, Do, Loop)
                         IN IF r.err = NoError THEN Goto(m2, r.idx)
                            ELSE Fail(m2, r.err)
                    ELSE Goto([m2 EXCEPT !.loop_control_stack =
                                   Append(@, << Top(m).idx + 1, start, limit >>)],
                              Top(m).idx + 1)

\* The Loop arm ending the loop once the index is past the limit.
eval_Loop_inclusive(m) ==
    IF Len(m.loop_control_stack) # 0
    THEN LET n == Len(m.loop_control_stack)
             loop_start_idx == m.loop_control_stack[n][1]
             current_index == m.loop_control_stack[n][2] + 1
             limit == m.loop_control_stack[n][3]
         IN IF current_index > limit
            THEN Goto([m EXCEPT !.loop_control_stack = Front(@)], Top(m).idx + 1)
            ELSE Goto([m EXCEPT !.loop_control_stack[n][2] = current_index],
                      loop_start_idx)
    ELSE Fail(m, LoopStackUnderflow)

\* The Loop arm that goes back to the start of the loop by a call of eval.
eval_Loop_calling(m) ==
    IF Len(m.loop_control_stack) # 0
    THEN LET n == Len(m.loop_control_stack)
             loop_start_idx == m.loop_control_stack[n][1]
             current_index == m.loop_control_stack[n][2] + 1
             limit == m.loop_control_stack[n][3]
         IN IF current_index >= limit
            THEN Goto([m EXCEPT !.loop_control_stack = Front(@)], Top(m).idx + 1)
            ELSE [m EXCEPT !.loop_control_stack[n][2] = current_index,
                           !.calls = Append(@, [ops |-> Top(m).ops,
                                                idx |-> loop_start_idx])]
    ELSE Fail(m, LoopStackUnderflow)

eval_Loop(m) ==
    IF Len(m.loop_control_stack) # 0
    THEN LET n == Len(m.loop_control_stack)
             loop_start_idx == m.loop_control_stack[n][1]
             current_index == m.loop_control_stack[n][2] + 1
             limit == m.loop_control_stack[n][3]
         IN IF current_index >= limit
            THEN Goto([m EXCEPT !.loop_control_stack = Front(@)], Top(m).idx + 1)
            ELSE Goto([m EXCEPT !.loop_control_stack[n][2] = current_index],
                      loop_start_idx)
    ELSE Fail(m, LoopStackUnderflow)

\* The while loop is left (idx >= ops.len()): this call returns Ok(()), and the
\* calling arm (Word or IfElse) goes on with next_idx = idx + 1.
eval_return(m) ==
    LET m2 == [m EXCEPT !.calls = Front(@)]
    IN IF Len(m2.calls) = 0 THEN m2 ELSE Goto(m2, Top(m2).idx + 1)

\* A calling arm that drops the Err of the call it made and goes on.
eval_propagate_dropped(m) ==
    LET m2 == [m EXCEPT !.calls = Front(@), !.error = NoError]
    IN IF Len(m2.calls) = 0 THEN m2 ELSE Goto(m2, Top(m2).idx + 1)

\* `?` on the Err of a nested call: this call returns the same Err.
eval_propagate(m) == [m EXCEPT !.calls = Front(@)]

\* The match of eval on the operation at idx.
eval_op(m) ==
    LET o == CurOp(m).op
    IN CASE o = "Push" -> eval_Push(m)
         [] o = "Add" -> eval_Add(m)
         [] o = "Subtract" -> eval_Subtract(m)
         [] o = "Multiply" -> eval_Multiply(m)
         [] o = "Divide" -> eval_Divide(m)
         [] o = "Mod" -> eval_Mod(m)
         [] o = "Eq" -> eval_Eq(m)
         [] o = "Lt" -> eval_Lt(m)
         [] o = "Gt" -> eval_Gt(m)
         [] o = "Dup" -> eval_Dup(m)
         [] o = "Drop" -> eval_Drop(m)
         [] o = "Swap" -> eval_Swap(m)
         [] o = "Over" -> eval_Over(m)
         [] o = "Rot" -> eval_Rot(m)
         [] o = "QDup" -> eval_QDup(m)
         [] o = "TwoDup" -> eval_TwoDup(m)
         [] o = "TwoDrop" -> eval_TwoDrop(m)
         [] o = "TwoSwap" -> eval_TwoSwap(m)
         [] o = "TwoOver" -> eval_TwoOver(m)
         [] o = "MinusRot" -> eval_MinusRot(m)
         [] o = "Print" -> eval_Print(m)
         [] o = "PrintStack" -> eval_PrintStack(m)
         [] o = "Define" -> eval_Define(m)
         [] o = "I" -> eval_I(m)
         [] o = "Word" -> eval_Word(m)
         [] o = "IfElse" -> eval_IfElse(m)
         [] o = "Do" -> eval_Do(m)
         [] o = "Loop" -> eval_Loop(m)

\* The outermost call has returned.
Finished(m) == Len(m.calls) = 0

\* The innermost call is at an operation (idx < ops.len()) and no Err is
\* being returned.
AtOp(m) == ~Finished(m) /\ m.error = NoError /\ Top(m).idx < Len(Top(m).ops)

\* The innermost call has run off the end of its ops.
AtEnd(m) == ~Finished(m) /\ m.error = NoError /\ ~(Top(m).idx < Len(Top(m).ops))

\* The call depth is at the bound of the model and the next operation calls eval.
AtBound(m) == AtOp(m) /\ CurOp(m).op = "Word" /\ Len(m.calls) >= MaxCallDepth

\* One step of the evaluator.
eval_step(m) ==
    IF m.error # NoError THEN eval_propagate(m)
    ELSE IF AtEnd(m) THEN eval_return(m)
    ELSE eval_op(m)

RECURSIVE eval_run(_, _)
\* The evaluator run until the outermost call returns, for at most fuel steps.
eval_run(m, fuel) ==
    IF Finished(m) \/ fuel = 0 \/ AtBound(m) THEN m
    ELSE eval_run(eval_step(m), fuel - 1)

RECURSIVE eval_run_to(_, _, _, _)
\* The evaluator run until the call at depth `depth` is at index `target` with
\* no Err, or the outermost call returns; done is FALSE when the bounds of the
\* model end the run first.
eval_run_to(m, depth, target, fuel) ==
    IF Finished(m) THEN [done |-> TRUE, m |-> m]
    ELSE IF m.error = NoError /\ Len(m.calls) = depth /\ Top(m).idx = target
         THEN [done |-> TRUE, m |-> m]
         ELSE IF fuel = 0 \/ AtBound(m) THEN [done |-> FALSE, m |-> m]
              ELSE eval_run_to(eval_step(m), depth, target, fuel - 1)

\* eval(ops, stack, dictionary, loop_control_stack) at its entry.
eval_enter(ops, stack0, dictionary0, lcs0, oc) ==
    [calls |-> << [ops |-> ops, idx |-> 0] >>,
     stack |-> stack0,
     dictionary |-> dictionary0,
     loop_control_stack |-> lcs0,
     error |-> NoError,
     output |-> << >>,
     overflow_checks |-> oc]

(***************************************************************************)
(* token.rs: Token.  The lexer skips Whitespace, Comment and LineComment,  *)
(* so a token sequence holds the four kinds below.                         *)
(***************************************************************************)
Colon == [t |-> "Colon"]
Semicolon == [t |-> "Semicolon"]
Integer(n) == [t |-> "Integer", n |-> n]
TokenWord(s) == [t |-> "Word", s |-> s]

\* matches!(token, Token::Whitespace | Token::Comment | Token::LineComment)
Skipped(token) == token.t \in {"Whitespace", "Comment", "LineComment"}

(***************************************************************************)
(* parser.rs: ParseError, parse_token_to_op, parse.                        *)
(***************************************************************************)
NoParseError == [kind |-> "Ok"]
UnexpectedToken(token) == [kind |-> "UnexpectedToken", token |-> token]
\* A missing name reported as an incomplete definition.
ExpectedWordName_incomplete == [kind |-> "UnterminatedDefinition"]
ExpectedWordName == [kind |-> "ExpectedWordName"]
UnterminatedDefinition == [kind |-> "UnterminatedDefinition"]
NestedDefinitionNotSupported == [kind |-> "NestedDefinitionNotSupported"]
UnterminatedConditional == [kind |-> "UnterminatedConditional"]
MismatchedDoLoop == [kind |-> "MismatchedDoLoop"]
ControlWordOutsideDefinition(s) == [kind |-> "ControlWordOutsideDefinition", s |-> s]

\* Result<Vec<ForthOp>, ParseError>
ParseOk(ops) == [err |-> NoParseError, ops |-> ops]
ParseErr(e) == [err |-> e, ops |-> << >>]

\* Option<T>
Some(v) == [some |-> TRUE, val |-> v]
None == [some |-> FALSE]

\* The spellings parse and parse_token_to_op compare lower-cased words with.
w_if == << "i", "f" >>
w_else == << "e", "l", "s", "e" >>
w_then == << "t", "h", "e", "n" >>
w_do == << "d", "o" >>
w_loop == << "l", "o", "o", "p" >>
w_i == << "i" >>

\* parse_token_to_op comparing the word as it is written.
parse_token_to_op_as_written(token) ==
    IF token.t = "Integer" THEN Some(Push(token.n))
    ELSE IF token.t = "Word"
    THEN LET l == token.s
         IN CASE l = << "=" >> -> Some(Eq)
              [] l = << "<" >> -> Some(Lt)
              [] l = << ">" >> -> Some(Gt)
              [] l = << "+" >> -> Some(Add)
              [] l = << "-" >> -> Some(Subtract)
              [] l = << "*" >> -> Some(Multiply)
              [] l = << "/" >> -> Some(Divide)
              [] l = << "m", "o", "d" >> -> Some(Mod)
              [] l = << "." >> -> Some(PrintOp)
              [] l = << ".", "s" >> -> Some(PrintStack)
              [] l = << "d", "u", "p" >> -> Some(Dup)
              [] l = << "d", "r", "o", "p" >> -> Some(Drop)
              [] l = << "s", "w", "a", "p" >> -> Some(Swap)
              [] l = << "o", "v", "e", "r" >> -> Some(Over)
              [] l = << "r", "o", "t" >> -> Some(Rot)
              [] l = << "?", "d", "u", "p" >> -> Some(QDup)
              [] l = << "2", "d", "u", "p" >> -> Some(TwoDup)
              [] l = << "2", "d", "r", "o", "p" >> -> Some(TwoDrop)
              [] l = << "2", "s", "w", "a", "p" >> -> Some(TwoSwap)
              [] l = << "2", "o", "v", "e", "r" >> -> Some(TwoOver)
              [] l = << "-", "r", "o", "t" >> -> Some(MinusRot)
              [] OTHER -> Some(Word(token.s))
    ELSE None

parse_token_to_op(token) ==
    IF token.t = "Integer" THEN Some(Push(token.n))
    ELSE IF token.t = "Word"
    THEN LET l == to_lowercase(token.s)
         IN CASE l = << "=" >> -> Some(Eq)
              [] l = << "<" >> -> Some(Lt)
              [] l = << ">" >> -> Some(Gt)
              [] l = << "+" >> -> Some(Add)
              [] l = << "-" >> -> Some(Subtract)
              [] l = << "*" >> -> Some(Multiply)
              [] l = << "/" >> -> Some(Divide)
              [] l = << "m", "o", "d" >> -> Some(Mod)
              [] l = << "." >> -> Some(PrintOp)
              [] l = << ".", "s" >> -> Some(PrintStack)
              [] l = << "d", "u", "p" >> -> Some(Dup)
              [] l = << "d", "r", "o", "p" >> -> Some(Drop)
              [] l = << "s", "w", "a", "p" >> -> Some(Swap)
              [] l = << "o", "v", "e", "r" >> -> Some(Over)
              [] l = << "r", "o", "t" >> -> Some(Rot)
              [] l = << "?", "d", "u", "p" >> -> Some(QDup)
              [] l = << "2", "d", "u", "p" >> -> Some(TwoDup)
              [] l = << "2", "d", "r", "o", "p" >> -> Some(TwoDrop)
              [] l = << "2", "s", "w", "a", "p" >> -> Some(TwoSwap)
              [] l = << "2", "o", "v", "e", "r" >> -> Some(TwoOver)
              [] l = << "-", "r", "o", "t" >> -> Some(MinusRot)
              [] OTHER -> Some(Word(token.s))
    ELSE None

RECURSIVE scan_if_first_then(_, _, _, _, _, _)
\* The scan of an IF that does not count the IFs nested in it.
scan_if_first_then(tokens, pos, depth, in_else, then_toks, else_toks) ==
    IF pos > Len(tokens)
    THEN [depth |-> depth, in_else |-> in_else, then_toks |-> then_toks,
          else_toks |-> else_toks, next |-> pos]
    ELSE LET next_tok == tokens[pos]
             wl == IF next_tok.t = "Word" THEN to_lowercase(next_tok.s) ELSE << >>
         IN IF wl = w_else
            THEN scan_if_first_then(tokens, pos + 1, depth, TRUE, then_toks, else_toks)
            ELSE IF wl = w_then
            THEN [depth |-> 0, in_else |-> in_else, then_toks |-> then_toks,
                  else_toks |-> else_toks, next |-> pos + 1]
            ELSE IF in_else
                 THEN scan_if_first_then(tokens, pos + 1, depth, in_else, then_toks,
                                         Append(else_toks, next_tok))
                 ELSE scan_if_first_then(tokens, pos + 1, depth, in_else,
                                         Append(then_toks, next_tok), else_toks)

RECURSIVE scan_if(_, _, _, _, _, _)
\* The loop of parse that collects the tokens of the two branches of an IF, from
\* the token at pos (1-based): it ends at the THEN that brings depth to 0, or
\* when the tokens run out.  next is the position after the last token taken.
scan_if(tokens, pos, depth, in_else, then_toks, else_toks) ==
    IF pos > Len(tokens)
    THEN [depth |-> depth, in_else |-> in_else, then_toks |-> then_toks,
          else_toks |-> else_toks, next |-> pos]
    ELSE LET next_tok == tokens[pos]
             wl == IF next_tok.t = "Word" THEN to_lowercase(next_tok.s) ELSE << >>
             depth2 == IF wl = w_if THEN depth + 1
                       ELSE IF wl = w_then THEN depth - 1
                       ELSE depth
         IN IF wl = w_else /\ depth = 1
            THEN scan_if(tokens, pos + 1, depth, TRUE, then_toks, else_toks)
            ELSE IF wl = w_then /\ depth2 = 0
            THEN [depth |-> 0, in_else |-> in_else, then_toks |-> then_toks,
                  else_toks |-> else_toks, next |-> pos + 1]
            ELSE IF in_else
                 THEN scan_if(tokens, pos + 1, depth2, in_else, then_toks,
                              Append(else_toks, next_tok))
                 ELSE scan_if(tokens, pos + 1, depth2, in_else,
                              Append(then_toks, next_tok), else_toks)

\* The end-of-input check of parse reporting the open DO first.
parse_end_loops_first(ops, compiling, loop_depth) ==
    IF compiling /\ loop_depth # 0 THEN ParseErr(MismatchedDoLoop)
    ELSE IF compiling THEN ParseErr(UnterminatedDefinition)
    ELSE ParseOk(ops)

\* The end-of-input check of parse.
parse_end(ops, compiling, loop_depth) ==
    IF compiling THEN ParseErr(UnterminatedDefinition) ELSE ParseOk(ops)

\* parse taking no DO for open.
do_open_ignored(loop_depth) == FALSE

\* The tests `loop_depth != 0` at `;` and `loop_depth == 0` at LOOP: a DO of
\* the definition is open.
do_open(loop_depth) == loop_depth # 0

\* The interpret mode of parse rejecting the conditional words only.
ControlWords_conditional == { w_if, w_else, w_then }

\* The words the interpret mode of parse rejects.
ControlWords == { w_do, w_loop, w_i, w_if, w_else, w_then }

RECURSIVE parse(_)
RECURSIVE parse_loop(_, _, _, _, _, _, _)
\* The while loop of parse from the token at pos (1-based), with the values of
\* its local variables.
parse_loop(tokens, pos, ops, compiling, current_def_name, current_def_body, loop_depth) ==
    IF pos > Len(tokens) THEN parse_end(ops, compiling, loop_depth)
    ELSE
    LET token == tokens[pos]
        lower_s == IF token.t = "Word" THEN to_lowercase(token.s) ELSE << >>
        op == parse_token_to_op(token)
        \* the state of the loop with one more operation in the body or in ops
        Compiled(o, d) ==
            parse_loop(tokens, pos + 1, ops, compiling, current_def_name,
                       Append(current_def_body, o), d)
        Interpreted(o) ==
            parse_loop(tokens, pos + 1, Append(ops, o), compiling, current_def_name,
                       current_def_body, loop_depth)
    IN
    IF Skipped(token)
    THEN parse_loop(tokens, pos + 1, ops, compiling, current_def_name,
                    current_def_body, loop_depth)
    ELSE IF compiling
    THEN IF token.t = "Word" /\ lower_s = w_if
         THEN LET sc == scan_if(tokens, pos + 1, 1, FALSE, << >>, << >>)
              IN IF sc.depth # 0 THEN ParseErr(UnterminatedConditional)
                 ELSE LET then_r == parse(sc.then_toks)
                      IN IF then_r.err # NoParseError THEN then_r
                         ELSE LET else_r == IF sc.in_else THEN parse(sc.else_toks)
                                            ELSE ParseOk(<< >>)
                              IN IF else_r.err # NoParseError THEN else_r
                                 ELSE parse_loop(tokens, sc.next, ops, compiling,
                                                 current_def_name,
                                                 Append(current_def_body,
                                                        IfElse(then_r.ops, else_r.ops)),
                                                 loop_depth)
         ELSE IF token.t = "Semicolon"
         THEN IF do_open(loop_depth) THEN ParseErr(MismatchedDoLoop)
              ELSE parse_loop(tokens, pos + 1,
                              Append(ops, Define(current_def_name, current_def_body)),
                              FALSE, << >>, << >>, 0)
         ELSE IF token.t = "Colon" THEN ParseErr(NestedDefinitionNotSupported)
         ELSE IF token.t = "Word"
         THEN IF lower_s = w_do THEN Compiled(Do, loop_depth + 1)
              ELSE IF lower_s = w_loop
              THEN IF ~do_open(loop_depth) THEN ParseErr(MismatchedDoLoop)
                   ELSE Compiled(Loop, loop_depth - 1)
              ELSE IF lower_s = w_i THEN Compiled(I, loop_depth)
              ELSE IF op.some THEN Compiled(op.val, loop_depth)
              ELSE ParseErr(UnexpectedToken(token))
         ELSE IF op.some THEN Compiled(op.val, loop_depth)
         ELSE ParseErr(UnexpectedToken(token))
    ELSE IF token.t = "Colon"
         THEN IF pos + 1 <= Len(tokens) /\ tokens[pos + 1].t = "Word"
              THEN parse_loop(tokens, pos + 2, ops, TRUE,
                              to_uppercase(tokens[pos + 1].s), current_def_body,
                              loop_depth)
              ELSE ParseErr(ExpectedWordName)
         ELSE IF token.t = "Semicolon" THEN ParseErr(UnexpectedToken(Semicolon))
         ELSE IF token.t = "Word" /\ lower_s \in ControlWords
         THEN ParseErr(ControlWordOutsideDefinition(token.s))
         ELSE IF op.some THEN Interpreted(op.val)
         ELSE ParseErr(UnexpectedToken(token))

parse(tokens) == parse_loop(tokens, 1, << >>, FALSE, << >>, << >>, 0)

(***************************************************************************)
(* The programs and stacks eval is entered with.                           *)
(***************************************************************************)
TEST == << "T", "E", "S", "T" >>
test == << "t", "e", "s", "t" >>
DOUBLE == << "D", "O", "U", "B", "L", "E" >>
Double == << "D", "o", "u", "b", "l", "e" >>
double == << "d", "o", "u", "b", "l", "e" >>
QUADRUPLE == << "Q", "U", "A", "D", "R", "U", "P", "L", "E" >>
UNKNOWN == << "U", "N", "K", "N", "O", "W", "N" >>
foo == << "f", "o", "o" >>
do == << "d", "o" >>

StackVals == { -7, 0, 2 }

\* All sequences over S of length at most n.
SeqsUpTo(S, n) == UNION { [1..k -> S] : k \in 0..n }

\* Stacks of depth at most MaxDepth, and the same on top of one more value.
Stacks ==
    SeqsUpTo(StackVals, MaxDepth)
        \cup { << 5 >> \o s : s \in SeqsUpTo(StackVals, MaxDepth) }

SmallStacks == { << >>, << 3 >>, << 0, 2 >>, << 2, 0 >>, << 5, 0, -7 >> }

\* One operation entered with any stack.
SingleOps ==
    { Add, Subtract, Multiply, Divide, Mod, Eq, Lt, Gt,
      Dup, Drop, Swap, Over, Rot, QDup, TwoDup, TwoDrop, TwoSwap, TwoOver,
      MinusRot, PrintOp, PrintStack, Push(3), I, Loop, Do,
      Word(foo), Word(do),
      IfElse(<< Push(1) >>, << Push(2) >>),
      IfElse(<< Push(1) >>, << >>),
      IfElse(<< Drop, Push(1) >>, << Add >>) }

SingleInputs == { [ops |-> << o >>, stack |-> s] : o \in SingleOps, s \in Stacks }

\* Sequences of pushes and arithmetic operations.
ArithOps == { Push(3), Push(-7), Add, Subtract, Multiply, Divide, Mod }

ArithStacks == { << >>, << -7, 2 >>, << 10, 5 >> }

ArithInputs ==
    { [ops |-> p, stack |-> s] :
        p \in SeqsUpTo(ArithOps, MaxArithLen), s \in ArithStacks }

\* A definition of TEST, then a reference to it, inside or outside a loop.
Bodies ==
    { << >>,
      << Push(2), Multiply >>,
      << Dup, Multiply >>,
      << Add, Push(9) >>,
      << I >>,
      << I, Loop >>,
      << Loop, Push(9) >>,
      << Do >>,
      << Do, I, Loop >>,
      << Push(2), Push(0), Do, I, Loop >>,
      << Word(foo) >>,
      << PrintOp, PrintStack >>,
      << IfElse(<< Push(1) >>, << Word(foo), Push(9) >>), Push(8) >>,
      << IfElse(<< Loop >>, << >>), Push(8) >>,
      << Define(TEST, << Push(9) >>), Push(1) >>,
      << Define(DOUBLE, << Dup, Add >>), Word(Double) >> }

Befores ==
    { << >>,
      << Push(3) >>,
      << Define(TEST, << Push(2) >>) >>,
      << Push(2), Push(0), Do >>,
      << Push(0), Push(2), Do >> }

Afters == { << >>, << Push(5) >>, << Loop, Push(5) >> }

WordInputs ==
    { [ops |-> << Define(TEST, b) >> \o x \o << Word(test) >> \o y, stack |-> s] :
        b \in Bodies, x \in Befores, y \in Afters, s \in SmallStacks }

\* limit start DO body LOOP, at the top level and as the body of a word.
LoopBodies ==
    { << >>,
      << I >>,
      << I, Push(1), Add >>,
      << I, I, Drop >>,
      << Push(2), Push(0), Do, I, Loop, I >>,
      << I, Push(0), Do, I, Loop >>,
      << Word(foo) >>,
      << Drop >> }

LoopProgram(limit, start, body) ==
    << Push(limit), Push(start), Do >> \o body \o << Loop, Push(9) >>

LoopInputs ==
    { [ops |-> LoopProgram(l, s, b), stack |-> << 5 >>] :
        l \in -1..MaxLimit, s \in -1..MaxLimit, b \in LoopBodies }
    \cup
    { [ops |-> << Define(TEST, LoopProgram(l, s, b)), Word(test) >>,
       stack |-> << 5 >>] :
        l \in -1..MaxLimit, s \in -1..MaxLimit, b \in LoopBodies }

\* The sequences of the tests of eval.rs.
TestInputs ==
    { [ops |-> p, stack |-> << >>] : p \in
        { << Push(10), Push(5), Multiply, Push(2), Divide, Push(3), Subtract >>,
          << Push(10), Push(5), Subtract, Push(3), Divide, Push(2), Mod >>,
          << Push(1), Push(2), Push(3), Rot, Dup, Over, Swap, Drop >>,
          << Push(1), Push(2), Push(3), Push(4), TwoSwap, TwoDup, TwoOver, TwoDrop >>,
          << Define(TEST, << Push(1) >>), Define(TEST, << Push(2) >>), Word(TEST) >>,
          << Define(DOUBLE, << Push(2), Multiply >>),
             Define(QUADRUPLE, << Word(DOUBLE), Word(DOUBLE) >>),
             Push(3), Word(QUADRUPLE) >>,
          << Define(TEST, << Word(UNKNOWN) >>), Word(TEST) >>,
          << Define(TEST, << Push(0), Push(5), Push(0), Do, I, Add, Loop >>),
             Word(TEST) >>,
          << Define(TEST, << Word(test) >>), Word(TEST) >>,
          << Define(TEST, << Push(5), Push(0), Do, I, Loop >>), Word(TEST) >>,
          << Push(5), Push(0), Word(do) >>,
          << Define(TEST, << Push(1), Define(TEST, << Push(2) >>), Push(3) >>),
             Word(TEST), Word(test) >>,
          << Define(TEST, << Push(0), IfElse(<< Push(7) >>,
                                             << Define(TEST, << Push(2) >>), Word(TEST) >>),
                             Push(3) >>),
             Word(TEST) >>,
          << Define(DOUBLE, << Push(1) >>), Define(QUADRUPLE, << Word(Double) >>),
             Word(QUADRUPLE), Define(DOUBLE, << Push(2) >>), Word(QUADRUPLE) >>,
          << Push(5), Word(TEST), Define(TEST, << Push(1) >>) >>,
          << Define(TEST, << Word(do) >>), Define(<< "D", "O" >>, << Push(1) >>),
             Word(TEST) >>,
          << Word(do), Define(<< "D", "O" >>, << Push(1) >>) >> } }

Inputs == SingleInputs \cup ArithInputs \cup WordInputs \cup LoopInputs \cup TestInputs

(***************************************************************************)
(* The state machine: one call of eval from main's initial state (empty    *)
(* dictionary, empty loop-control stack), one operation per step.          *)
(***************************************************************************)
VARIABLES
    calls,               \* the active calls of eval: << [ops, idx], ... >>
    stack,               \* Vec<i64>
    dictionary,          \* HashMap<String, Vec<ForthOp>>
    loop_control_stack,  \* Vec<(usize, i64, i64)>
    error,               \* the Err being returned, or NoError
    output,              \* what has been printed
    overflow_checks,     \* the build checks arithmetic overflow
    input,               \* history: the ops and the stack eval was entered with
    trace,               \* history: the operations executed, in order
    pending_tokens,      \* main: the buffer of the tokens not yet parsed
    latest_word,         \* main: Option<String>, the name defined last
    session_log,         \* history: the lines process_line was called with
    tokens,              \* the argument of a call of parse
    parsed,              \* the result of that call, or NotParsed
    jit,                 \* main: the build's native-code generator, if any
    compiled_code        \* main: the compiled_code of the dictionary entries

vars ==
    << calls, stack, dictionary, loop_control_stack, error, output,
       overflow_checks, input, trace,
       pending_tokens, latest_word, session_log, tokens, parsed,
       jit, compiled_code >>

\* The variables of the front end and of a call of parse.
front_vars ==
    << pending_tokens, latest_word, session_log, tokens, parsed, jit, compiled_code >>

\* No call of parse has been made.
NotParsed == [err |-> [kind |-> "NotParsed"], ops |-> << >>]

\* The front end has read nothing, and parse has not been called.
FrontIdle ==
    /\ pending_tokens = << >>
    /\ latest_word = None
    /\ session_log = << >>
    /\ tokens = << >>
    /\ parsed = NotParsed
    /\ jit = None
    /\ compiled_code = << >>

M ==
    [calls |-> calls,
     stack |-> stack,
     dictionary |-> dictionary,
     loop_control_stack |-> loop_control_stack,
     error |-> error,
     output |-> output,
     overflow_checks |-> overflow_checks]

Init ==
    /\ input \in Inputs
    /\ overflow_checks \in BOOLEAN
    /\ calls = << [ops |-> input.ops, idx |-> 0] >>
    /\ stack = input.stack
    /\ dictionary = << >>
    /\ loop_control_stack = << >>
    /\ error = NoError
    /\ output = << >>
    /\ trace = << >>
    /\ FrontIdle

Becomes(m) ==
    /\ calls' = m.calls
    /\ stack' = m.stack
    /\ dictionary' = m.dictionary
    /\ loop_control_stack' = m.loop_control_stack
    /\ error' = m.error
    /\ output' = m.output
    /\ UNCHANGED << overflow_checks, input >>
    /\ UNCHANGED front_vars

\* The operation at idx is executed: the history records it with the depth of
\* the call, the stacks before it and the stack after it.
Executes(m) ==
    /\ Becomes(m)
    /\ trace' = Append(trace, [depth |-> Len(calls),
                               idx |-> Top(M).idx,
                               op |-> CurOp(M),
                               before |-> stack,
                               lcs |-> loop_control_stack,
                               after |-> m.stack,
                               ok |-> m.error = NoError])

At(name) == AtOp(M) /\ CurOp(M).op = name

EvalPush == At("Push") /\ Executes(eval_Push(M))
EvalAdd == At("Add") /\ Executes(eval_Add(M))
EvalSubtract == At("Subtract") /\ Executes(eval_Subtract(M))
EvalMultiply == At("Multiply") /\ Executes(eval_Multiply(M))
EvalDivide == At("Divide") /\ Executes(eval_Divide(M))
EvalMod == At("Mod") /\ Executes(eval_Mod(M))
EvalEq == At("Eq") /\ Executes(eval_Eq(M))
EvalLt == At("Lt") /\ Executes(eval_Lt(M))
EvalGt == At("Gt") /\ Executes(eval_Gt(M))
EvalDup == At("Dup") /\ Executes(eval_Dup(M))
EvalDrop == At("Drop") /\ Executes(eval_Drop(M))
EvalSwap == At("Swap") /\ Executes(eval_Swap(M))
EvalOver == At("Over") /\ Executes(eval_Over(M))
EvalRot == At("Rot") /\ Executes(eval_Rot(M))
EvalQDup == At("QDup") /\ Executes(eval_QDup(M))
EvalTwoDup == At("TwoDup") /\ Executes(eval_TwoDup(M))
EvalTwoDrop == At("TwoDrop") /\ Executes(eval_TwoDrop(M))
EvalTwoSwap == At("TwoSwap") /\ Executes(eval_TwoSwap(M))
EvalTwoOver == At("TwoOver") /\ Executes(eval_TwoOver(M))
EvalMinusRot == At("MinusRot") /\ Executes(eval_MinusRot(M))
EvalPrint == At("Print") /\ Executes(eval_Print(M))
EvalPrintStack == At("PrintStack") /\ Executes(eval_PrintStack(M))
EvalDefine == At("Define") /\ Executes(eval_Define(M))
EvalI == At("I") /\ Executes(eval_I(M))
EvalWord == At("Word") /\ Len(calls) < MaxCallDepth /\ Executes(eval_Word(M))
EvalIfElse == At("IfElse") /\ Executes(eval_IfElse(M))
EvalDo == At("Do") /\ Executes(eval_Do(M))
EvalLoop == At("Loop") /\ Executes(eval_Loop(M))

\* A call of eval returns Ok(()).
EvalReturn == AtEnd(M) /\ Becomes(eval_return(M)) /\ UNCHANGED trace

\* A call of eval returns the Err of the call it made.
EvalPropagate ==
    /\ ~Finished(M)
    /\ error # NoError
    /\ Becomes(eval_propagate(M))
    /\ UNCHANGED trace

Next ==
    \/ EvalPush \/ EvalAdd \/ EvalSubtract \/ EvalMultiply \/ EvalDivide
    \/ EvalMod \/ EvalEq \/ EvalLt \/ EvalGt
    \/ EvalDup \/ EvalDrop \/ EvalSwap \/ EvalOver \/ EvalRot \/ EvalQDup
    \/ EvalTwoDup \/ EvalTwoDrop \/ EvalTwoSwap \/ EvalTwoOver \/ EvalMinusRot
    \/ EvalPrint \/ EvalPrintStack \/ EvalDefine \/ EvalI
    \/ EvalWord \/ EvalIfElse \/ EvalDo \/ EvalLoop
    \/ EvalReturn \/ EvalPropagate

Spec == Init /\ [][Next]_vars

(***************************************************************************)
(* main.rs: the line-oriented front end.  The session is main's local      *)
(* state; process_line is called once per line, with the tokens of the     *)
(* line.                                                                   *)
(***************************************************************************)
Session ==
    [pending_tokens |-> pending_tokens,
     stack |-> stack,
     dictionary |-> dictionary,
     loop_control_stack |-> loop_control_stack,
     latest_word |-> latest_word,
     output |-> output,
     overflow_checks |-> overflow_checks,
     jit |-> jit,
     compiled_code |-> compiled_code]

\* Evaluator::new(false) given the stack and the dictionary, then eval(ops).
Evaluator_eval(ops, stack0, dictionary0, oc) ==
    eval_run(eval_enter(ops, stack0, dictionary0, << >>, oc), Fuel)

\* The names whose entry eval(ops) made anew: those of the definitions of ops
\* and those whose body is not the one the evaluator was given.
Evaluator_defined(ops, dictionary0, m) ==
    { ops[k].name : k \in { j \in DOMAIN ops : ops[j].op = "Define" } }
      \cup { n \in DOMAIN m.dictionary :
                 n \notin DOMAIN dictionary0 \/ m.dictionary[n] # dictionary0[n] }

\* The compiled_code of the entries of get_dictionary() after eval(ops): a
\* definition makes an entry without compiled code, the other entries are the
\* imported ones.
Evaluator_compiled_code(ops, dictionary0, compiled0, m) ==
    LET kept == (DOMAIN compiled0) \ Evaluator_defined(ops, dictionary0, m)
    IN [n \in kept |-> compiled0[n]]

\* evaluate_ops: the evaluator works on copies, which are written back to the
\* session after `evaluator.eval(ops)?` only.
evaluate_ops(ops, s) ==
    LET m == Evaluator_eval(ops, s.stack, s.dictionary, s.overflow_checks)
    IN IF m.error = NoError
       THEN [s EXCEPT !.stack = m.stack, !.dictionary = m.dictionary,
                      !.compiled_code =
                          Evaluator_compiled_code(ops, s.dictionary, @, m),
                      !.output = @ \o m.output]
       ELSE [s EXCEPT !.output = @ \o m.output]

\* The operations a native-code generator may be able to compile.
OpKinds ==
    { "Push", "Add", "Subtract", "Multiply", "Divide", "Mod", "Dup", "Drop",
      "Swap", "Over", "Rot", "QDup", "TwoDup", "TwoDrop", "TwoSwap", "TwoOver",
      "MinusRot", "Print", "PrintStack", "Word", "Define", "IfElse", "Eq", "Lt",
      "Gt", "Do", "Loop", "I" }

\* The builds: without the feature "jit", or with a generator that compiles
\* the bodies made of the operations it supports.
JitBuilds == { None, Some({}), Some(OpKinds) }

\* ForthJit::compile_word(name, body) is Ok.
compile_word(name, body, generator) ==
    \A k \in DOMAIN body : body[k].op \in generator

\* jit_compile_word: the code compiled from body is put in the entry the
\* dictionary has under name, if it has one, and "JIT compiled" is printed; a
\* failure is a warning on the standard error.
jit_compile_word(name, body, s) ==
    IF compile_word(name, body, s.jit.val) /\ name \in DOMAIN s.dictionary
    THEN [s EXCEPT !.compiled_code = insert(@, name, body),
                   !.output = Append(@, [jit_compiled |-> name])]
    ELSE s

\* The loop of process_line over ops[k..], under the feature "jit".
RECURSIVE jit_compile_defined(_, _, _)
jit_compile_defined(ops, k, s) ==
    IF k > Len(ops) THEN s
    ELSE IF ops[k].op = "Define" /\ s.jit.some
    THEN jit_compile_defined(ops, k + 1, jit_compile_word(ops[k].name, ops[k].body, s))
    ELSE jit_compile_defined(ops, k + 1, s)

\* for op in &ops { if let ForthOp::Define(name, ..) = op { *latest_word = .. } }
latest_defined(ops, latest) ==
    LET defs == { k \in DOMAIN ops : ops[k].op = "Define" }
    IN IF defs = {} THEN latest
       ELSE Some(ops[CHOOSE k \in defs : \A j \in defs : j <= k].name)

\* process_line that parses the tokens of the line alone.
process_line_alone(line_tokens, s) ==
    LET pending == s.pending_tokens \o line_tokens
    IN IF pending = << >> THEN [session |-> s, parsed |-> NotParsed, evaluated |-> None]
       ELSE LET r == parse(line_tokens)
            IN IF r.err = NoParseError
               THEN [session |-> evaluate_ops(r.ops,
                                   jit_compile_defined(r.ops, 1,
                                       [s EXCEPT !.pending_tokens = << >>,
                                                 !.latest_word = latest_defined(r.ops, @)])),
                     parsed |-> r, evaluated |-> Some(r.ops)]
               ELSE IF r.err \in {UnterminatedDefinition, UnterminatedConditional}
               THEN [session |-> [s EXCEPT !.pending_tokens = pending],
                     parsed |-> r, evaluated |-> None]
               ELSE [session |-> [s EXCEPT !.pending_tokens = << >>],
                     parsed |-> r, evaluated |-> None]

\* process_line that keeps the buffer after every parse error.
process_line_keeping(line_tokens, s) ==
    LET pending == s.pending_tokens \o line_tokens
    IN IF pending = << >> THEN [session |-> s, parsed |-> NotParsed, evaluated |-> None]
       ELSE LET r == parse(pending)
            IN IF r.err = NoParseError
               THEN [session |-> evaluate_ops(r.ops,
                                   jit_compile_defined(r.ops, 1,
                                       [s EXCEPT !.pending_tokens = << >>,
                                                 !.latest_word = latest_defined(r.ops, @)])),
                     parsed |-> r, evaluated |-> Some(r.ops)]
               ELSE [session |-> [s EXCEPT !.pending_tokens = pending],
                     parsed |-> r, evaluated |-> None]

\* The generator of the build fails on a definition of ops.
jit_fails(ops, s) ==
    /\ s.jit.some
    /\ \E k \in DOMAIN ops :
          ops[k].op = "Define" /\ ~compile_word(ops[k].name, ops[k].body, s.jit.val)

\* process_line that gives the line up when the generator fails.
process_line_jit_fatal(line_tokens, s) ==
    LET pending == s.pending_tokens \o line_tokens
    IN IF pending = << >> THEN [session |-> s, parsed |-> NotParsed, evaluated |-> None]
       ELSE LET r == parse(pending)
            IN IF r.err = NoParseError /\ jit_fails(r.ops, s)
               THEN [session |-> [s EXCEPT !.pending_tokens = << >>,
                                           !.latest_word = latest_defined(r.ops, @)],
                     parsed |-> r, evaluated |-> None]
               ELSE IF r.err = NoParseError
               THEN [session |-> evaluate_ops(r.ops,
                                   jit_compile_defined(r.ops, 1,
                                       [s EXCEPT !.pending_tokens = << >>,
                                                 !.latest_word = latest_defined(r.ops, @)])),
                     parsed |-> r, evaluated |-> Some(r.ops)]
               ELSE IF r.err \in {UnterminatedDefinition, UnterminatedConditional}
               THEN [session |-> [s EXCEPT !.pending_tokens = pending],
                     parsed |-> r, evaluated |-> None]
               ELSE [session |-> [s EXCEPT !.pending_tokens = << >>],
                     parsed |-> r, evaluated |-> None]

\* process_line on the tokens of a line: the session it leaves, with the result
\* of parse and the operations handed to evaluate_ops, if any.
process_line(line_tokens, s) ==
    LET pending == s.pending_tokens \o line_tokens
    IN IF pending = << >> THEN [session |-> s, parsed |-> NotParsed, evaluated |-> None]
       ELSE LET r == parse(pending)
            IN IF r.err = NoParseError
               THEN [session |-> evaluate_ops(r.ops,
                                   jit_compile_defined(r.ops, 1,
                                       [s EXCEPT !.pending_tokens = << >>,
                                                 !.latest_word = latest_defined(r.ops, @)])),
                     parsed |-> r, evaluated |-> Some(r.ops)]
               ELSE IF r.err \in {UnterminatedDefinition, UnterminatedConditional}
               THEN [session |-> [s EXCEPT !.pending_tokens = pending],
                     parsed |-> r, evaluated |-> None]
               ELSE [session |-> [s EXCEPT !.pending_tokens = << >>],
                     parsed |-> r, evaluated |-> None]

\* The lines of a session, as the tokens the lexer gives for them.
Lines ==
    { << >>,
      << Integer(5) >>,
      << TokenWord(<< "+" >>) >>,
      << Integer(5), TokenWord(foo) >>,
      << Colon, TokenWord(test), Integer(1) >>,
      << Semicolon >>,
      << Semicolon, TokenWord(foo) >>,
      << Colon, TokenWord(test), TokenWord(<< "I", "F" >>), Integer(2) >>,
      << TokenWord(w_then), Semicolon >>,
      << TokenWord(TEST) >>,
      << Colon >>,
      << Colon, TokenWord(Double), TokenWord(<< "d", "u", "p" >>),
         TokenWord(<< "+" >>), Semicolon >>,
      << TokenWord(DOUBLE) >>,
      << Colon, TokenWord(QUADRUPLE), Integer(4), Semicolon, Integer(7),
         TokenWord(foo) >>,
      << Colon, TokenWord(double), Integer(2), Semicolon, TokenWord(foo) >>,
      << TokenWord(w_do) >> }

\* main: the state before the first line.
InitSession ==
    /\ stack = << >>
    /\ dictionary = << >>
    /\ loop_control_stack = << >>
    /\ latest_word = None
    /\ pending_tokens = << >>
    /\ overflow_checks \in BOOLEAN
    /\ output = << >>
    /\ session_log = << >>
    /\ jit \in JitBuilds
    /\ compiled_code = << >>
    /\ calls = << >>
    /\ error = NoError
    /\ input = [ops |-> << >>, stack |-> << >>]
    /\ trace = << >>
    /\ tokens = << >>
    /\ parsed = NotParsed

\* One line is read and process_line is called with its tokens.
ProcessLine ==
    /\ Len(session_log) < MaxLines
    /\ \E line_tokens \in Lines :
          LET r == process_line(line_tokens, Session)
          IN /\ pending_tokens' = r.session.pending_tokens
             /\ stack' = r.session.stack
             /\ dictionary' = r.session.dictionary
             /\ loop_control_stack' = r.session.loop_control_stack
             /\ latest_word' = r.session.latest_word
             /\ output' = r.session.output
             /\ compiled_code' = r.session.compiled_code
             /\ session_log' = Append(session_log,
                                      [line |-> line_tokens, before |-> Session,
                                       parsed |-> r.parsed, evaluated |-> r.evaluated])
    /\ UNCHANGED << calls, error, overflow_checks, input, trace, tokens, parsed, jit >>

NextSession == ProcessLine

SpecSession == InitSession /\ [][NextSession]_vars

(***************************************************************************)
(* The arithmetic operations on operands at and near the ends of the range *)
(* of the machine integer, in both builds.                                 *)
(***************************************************************************)
Extremes == { IntMin, IntMin + 1, -2, -1, 0, 1, 2, IntMax - 1, IntMax }

OverflowInputs ==
    { [ops |-> << op >>, stack |-> << a, b >>] :
        op \in { Add, Subtract, Multiply, Divide, Mod }, a \in Extremes, b \in Extremes }

InitOverflow ==
    /\ input \in OverflowInputs
    /\ overflow_checks \in BOOLEAN
    /\ calls = << [ops |-> input.ops, idx |-> 0] >>
    /\ stack = input.stack
    /\ dictionary = << >>
    /\ loop_control_stack = << >>
    /\ error = NoError
    /\ output = << >>
    /\ trace = << >>
    /\ FrontIdle

NextOverflow ==
    \/ EvalAdd \/ EvalSubtract \/ EvalMultiply \/ EvalDivide \/ EvalMod
    \/ EvalReturn \/ EvalPropagate

SpecOverflow == InitOverflow /\ [][NextOverflow]_vars

(***************************************************************************)
(* parse as a function of its token sequence: the sequences are a part of  *)
(* at most MaxTokens tokens between an opening and a closing part.         *)
(***************************************************************************)
TokenAlphabet ==
    { Colon, Semicolon, Integer(1), TokenWord(test), TokenWord(w_if),
      TokenWord(w_else), TokenWord(w_then), TokenWord(w_do), TokenWord(w_loop),
      TokenWord(w_i), TokenWord(<< "I", "F" >>), TokenWord(<< "D", "o" >>) }

TokenHeads ==
    { << >>,
      << Colon, TokenWord(test) >>,
      << Colon, TokenWord(test), TokenWord(w_if) >> }

TokenTails ==
    { << >>,
      << Semicolon >>,
      << TokenWord(w_then), Semicolon >> }

TokenInputs ==
    { head \o mid \o tail :
        head \in TokenHeads, mid \in SeqsUpTo(TokenAlphabet, MaxTokens),
        tail \in TokenTails }

InitParse ==
    /\ tokens \in TokenInputs
    /\ parsed = NotParsed
    /\ overflow_checks = FALSE
    /\ calls = << >>
    /\ stack = << >>
    /\ dictionary = << >>
    /\ loop_control_stack = << >>
    /\ error = NoError
    /\ output = << >>
    /\ input = [ops |-> << >>, stack |-> << >>]
    /\ trace = << >>
    /\ pending_tokens = << >>
    /\ latest_word = None
    /\ session_log = << >>
    /\ jit = None
    /\ compiled_code = << >>

\* parse is called on the token sequence.
Parse ==
    /\ parsed = NotParsed
    /\ parsed' = parse(tokens)
    /\ UNCHANGED << calls, stack, dictionary, loop_control_stack, error, output,
                    overflow_checks, input, trace, pending_tokens, latest_word,
                    session_log, tokens, jit, compiled_code >>

NextParse == Parse

SpecParse == InitParse /\ [][NextParse]_vars

(***************************************************************************)
(* run_forth of the tests of eval.rs: the tokens of a program are parsed   *)
(* and the operations are evaluated on an empty stack, an empty dictionary *)
(* and an empty loop-control stack.                                        *)
(***************************************************************************)
Spellings == { double, Double, DOUBLE }

\* `: name body ; 6 reference`, the name and the reference in any letter case.
RunPrograms ==
    { << Colon, TokenWord(name) >> \o body \o << Semicolon, Integer(6), TokenWord(ref) >> :
        name \in Spellings,
        body \in { << Integer(2), TokenWord(<< "*" >>) >>,
                   << TokenWord(<< "D", "u", "p" >>), TokenWord(<< "+" >>) >> },
        ref \in Spellings \cup { foo } }

InitRun ==
    /\ tokens \in RunPrograms
    /\ parsed = NotParsed
    /\ overflow_checks \in BOOLEAN
    /\ calls = << >>
    /\ stack = << >>
    /\ dictionary = << >>
    /\ loop_control_stack = << >>
    /\ error = NoError
    /\ output = << >>
    /\ input = [ops |-> << >>, stack |-> << >>]
    /\ trace = << >>
    /\ pending_tokens = << >>
    /\ latest_word = None
    /\ session_log = << >>
    /\ jit = None
    /\ compiled_code = << >>

\* let ops = parse(tokens)?; then eval is entered with ops.
RunParse ==
    /\ parsed = NotParsed
    /\ parsed' = parse(tokens)
    /\ IF parsed'.err = NoParseError
       THEN /\ calls' = << [ops |-> parsed'.ops, idx |-> 0] >>
            /\ input' = [ops |-> parsed'.ops, stack |-> << >>]
       ELSE UNCHANGED << calls, input >>
    /\ UNCHANGED << stack, dictionary, loop_control_stack, error, output,
                    overflow_checks, trace, pending_tokens, latest_word,
                    session_log, tokens, jit, compiled_code >>

NextRun ==
    \/ RunParse
    \/ EvalPush \/ EvalAdd \/ EvalMultiply \/ EvalDup \/ EvalDefine \/ EvalWord
    \/ EvalReturn \/ EvalPropagate

SpecRun == InitRun /\ [][NextRun]_vars

(***************************************************************************)
(* Programs given as tokens: parse, then eval of the operations on an      *)
(* empty stack, an empty dictionary and an empty loop-control stack.       *)
(***************************************************************************)
\* The spellings of the table of parse_token_to_op.
ReservedSpellings ==
    { << "=" >>, << "<" >>, << ">" >>, << "+" >>, << "-" >>, << "*" >>, << "/" >>,
      << "m", "o", "d" >>, << "." >>, << ".", "s" >>, << "d", "u", "p" >>,
      << "d", "r", "o", "p" >>, << "s", "w", "a", "p" >>, << "o", "v", "e", "r" >>,
      << "r", "o", "t" >>, << "?", "d", "u", "p" >>, << "2", "d", "u", "p" >>,
      << "2", "d", "r", "o", "p" >>, << "2", "s", "w", "a", "p" >>,
      << "2", "o", "v", "e", "r" >>, << "-", "r", "o", "t" >> }

\* A word with every other letter in upper case.
MixedCase(s) == [k \in DOMAIN s |-> IF k % 2 = 1 THEN char_to_uppercase(s[k]) ELSE s[k]]

\* A word in lower case, in upper case and in mixed case.
LetterCases(s) == { s, to_uppercase(s), MixedCase(s) }

\* The word atoms: the reserved spellings, the control words and other words,
\* in three letter cases.
WordAtoms ==
    UNION { LetterCases(s) :
              s \in ReservedSpellings
                      \cup { w_if, w_else, w_then, w_do, w_loop, w_i }
                      \cup { foo, test, << "d", "u" >>, << "d", "u", "p", "e" >>,
                             << "m", "o", "d", "s" >>, << "1", "+" >> } }

\* A word alone, and a word as the body of a definition.
AtomPrograms ==
    { << TokenWord(s) >> : s \in WordAtoms }
      \cup { << Colon, TokenWord(test), TokenWord(s), Semicolon >> : s \in WordAtoms }

\* `: name 1 ; 3 5 name`, the name a reserved spelling, used in any letter case.
ShadowPrograms ==
    { << Colon, TokenWord(nr[1]), Integer(1), Semicolon, Integer(3), Integer(5),
         TokenWord(nr[2]) >> :
        nr \in { p \in WordAtoms \X WordAtoms :
                    /\ to_lowercase(p[1]) \in ReservedSpellings
                    /\ to_lowercase(p[1]) = to_lowercase(p[2]) } }

\* The bodies of the loops of LoopPrograms: I, an unknown word, a failing
\* built-in operation, a conditional, an inner loop, nothing.
LoopBodyTokens ==
    { << TokenWord(w_i) >>,
      << TokenWord(foo) >>,
      << TokenWord(<< "d", "r", "o", "p" >>) >>,
      << TokenWord(w_i), TokenWord(w_if), Integer(7), TokenWord(w_else),
         TokenWord(<< "+" >>), TokenWord(w_then) >>,
      << Integer(2), Integer(0), TokenWord(w_do), TokenWord(w_i), TokenWord(w_loop),
         TokenWord(<< "2", "d", "r", "o", "p" >>), TokenWord(w_i) >>,
      << >> }

\* `: test limit start do body loop ; test`
LoopPrograms ==
    { << Colon, TokenWord(test), Integer(limit), Integer(start), TokenWord(w_do) >>
        \o body \o << TokenWord(w_loop), Semicolon, TokenWord(test) >> :
        limit \in 0..MaxLimit, start \in 0..1, body \in LoopBodyTokens }

\* `: test word ; test`, the word a structural word or another word.
InvokedPrograms ==
    { << Colon, TokenWord(test), TokenWord(s), Semicolon, TokenWord(test) >> :
        s \in { w_if, w_else, w_then, w_do, w_loop, w_i, foo, << "E", "l", "s", "e" >>,
                << ".", "s" >>, TEST } }

\* Programs that define, use and redefine two words, or fail after a
\* definition.
DictionaryPrograms ==
    { << Colon, TokenWord(double), Integer(1), Semicolon,
         Colon, TokenWord(test), TokenWord(double), Semicolon,
         Integer(7), TokenWord(test),
         Colon, TokenWord(double), Integer(2), Semicolon,
         TokenWord(test), TokenWord(<< "+" >>) >>,
      << Colon, TokenWord(double), Integer(1), Semicolon, TokenWord(<< "+" >>) >>,
      << Colon, TokenWord(double), Integer(1), Semicolon,
         Colon, TokenWord(test), TokenWord(foo), Semicolon,
         TokenWord(test), Colon, TokenWord(double), Integer(2), Semicolon >> }

Programs ==
    AtomPrograms \cup ShadowPrograms \cup LoopPrograms \cup InvokedPrograms
        \cup DictionaryPrograms

InitProgram ==
    /\ tokens \in Programs
    /\ parsed = NotParsed
    /\ overflow_checks \in BOOLEAN
    /\ calls = << >>
    /\ stack = << >>
    /\ dictionary = << >>
    /\ loop_control_stack = << >>
    /\ error = NoError
    /\ output = << >>
    /\ input = [ops |-> << >>, stack |-> << >>]
    /\ trace = << >>
    /\ pending_tokens = << >>
    /\ latest_word = None
    /\ session_log = << >>
    /\ jit = None
    /\ compiled_code = << >>

NextProgram == RunParse \/ Next

SpecProgram == InitProgram /\ [][NextProgram]_vars

\* The running loop of eval keeps stepping: an eval step that can be taken is
\* eventually taken.
SpecProgramLive == InitProgram /\ [][NextProgram]_vars /\ WF_vars(Next)

(***************************************************************************)
(* Properties.                                                             *)
(***************************************************************************)
\* The operation executed last, with the stack it found.
Executed == trace # << >>
LastOp == Last(trace).op
Before == Last(trace).before

IsPrefix(s, t) == Len(s) <= Len(t) /\ SubSeq(t, 1, Len(s)) = s

\* The quotient of a by b rounded toward zero, by its defining property.
QuotientTowardZero(a, b) ==
    CHOOSE q \in -Abs(a)..Abs(a) :
        LET r == a - q * b
        IN /\ Abs(r) < Abs(b)
           /\ (r = 0 \/ (r < 0) = (a < 0))

\* a op b for the five arithmetic operations.
Value(o, a, b) ==
    CASE o = "Add" -> a + b
      [] o = "Subtract" -> a - b
      [] o = "Multiply" -> a * b
      [] o = "Divide" -> QuotientTowardZero(a, b)
      [] o = "Mod" -> a - b * QuotientTowardZero(a, b)

ArithNames == { "Add", "Subtract", "Multiply", "Divide", "Mod" }

RECURSIVE Expression(_, _)
\* The stack a sequence of pushes and arithmetic operations denotes, read left
\* to right from stack st; defined is FALSE when an operation finds fewer than
\* two values or a zero divisor.
Expression(ops, st) ==
    IF ops = << >> THEN [defined |-> TRUE, stack |-> st]
    ELSE LET o == Head(ops)
         IN IF o.op = "Push" THEN Expression(Tail(ops), Append(st, o.n))
            ELSE IF Len(st) < 2 THEN [defined |-> FALSE, stack |-> << >>]
            ELSE LET a == st[Len(st) - 1]
                     b == st[Len(st)]
                 IN IF o.op \in { "Divide", "Mod" } /\ b = 0
                    THEN [defined |-> FALSE, stack |-> << >>]
                    ELSE Expression(Tail(ops),
                                    Append(SubSeq(st, 1, Len(st) - 2),
                                           Value(o.op, a, b)))

IsArithmetic(ops) ==
    \A k \in DOMAIN ops : ops[k].op \in ArithNames \cup { "Push" }

\* C1: a sequence of Push, Add, Subtract, Multiply, Divide and Mod that never
\* underflows and never divides by zero returns Ok and leaves the stack the
\* expression denotes when read left to right, a (deeper) op b (top), with
\* Divide rounding toward zero.
C1_ArithmeticAsExpression ==
    (Finished(M) /\ IsArithmetic(input.ops)
        /\ Expression(input.ops, input.stack).defined)
    => /\ error = NoError
       /\ stack = Expression(input.ops, input.stack).stack

\* C1 witness: push 10, 5, multiply, 2, divide, 3, subtract has left [22].
C1_Witness ==
    /\ Finished(M)
    /\ input.ops = << Push(10), Push(5), Multiply, Push(2), Divide,
                      Push(3), Subtract >>
    /\ stack = << 22 >>

\* C2: Divide or Mod executed with 0 on top of at least two values fails with
\* DivisionByZero, whatever the dividend, and pushes no result.
C2_DivisionByZero ==
    (Executed /\ LastOp.op \in { "Divide", "Mod" }
        /\ Len(Before) >= 2 /\ Last(Before) = 0)
    => /\ error = DivisionByZero
       /\ IsPrefix(stack, Before)

\* C2 witness: Divide has failed on dividend -7 and divisor 0.
C2_Witness ==
    /\ Executed
    /\ LastOp = Divide
    /\ Len(Before) >= 2
    /\ Last(Before) = 0
    /\ Before[Len(Before) - 1] = -7
    /\ error = DivisionByZero

ShuffleNames ==
    { "Dup", "Drop", "Swap", "Over", "Rot", "MinusRot", "QDup",
      "TwoDup", "TwoDrop", "TwoSwap", "TwoOver" }

\* The documented arity of a stack-shuffle operation.
Arity(o) ==
    CASE o \in { "Dup", "Drop", "QDup" } -> 1
      [] o \in { "Swap", "Over", "TwoDup", "TwoDrop" } -> 2
      [] o \in { "Rot", "MinusRot" } -> 3
      [] o \in { "TwoSwap", "TwoOver" } -> 4

\* The documented stack effect on the affected values t, t[1] the deepest.
Effect(o, t) ==
    CASE o = "Dup" -> << t[1], t[1] >>
      [] o = "Drop" -> << >>
      [] o = "Swap" -> << t[2], t[1] >>
      [] o = "Over" -> << t[1], t[2], t[1] >>
      [] o = "Rot" -> << t[2], t[3], t[1] >>
      [] o = "MinusRot" -> << t[3], t[1], t[2] >>
      [] o = "QDup" -> IF t[1] # 0 THEN << t[1], t[1] >> ELSE << t[1] >>
      [] o = "TwoDup" -> << t[1], t[2], t[1], t[2] >>
      [] o = "TwoDrop" -> << >>
      [] o = "TwoSwap" -> << t[3], t[4], t[1], t[2] >>
      [] o = "TwoOver" -> << t[1], t[2], t[3], t[4], t[1], t[2] >>

\* C3: a stack-shuffle operation succeeds exactly when the depth is at least
\* its arity and fails with StackUnderflow otherwise; on success it rewrites the
\* affected top values as documented and leaves the values below them alone.
C3_StackShuffles ==
    (Executed /\ LastOp.op \in ShuffleNames)
    => LET n == Arity(LastOp.op)
       IN IF Len(Before) >= n
          THEN /\ error = NoError
               /\ stack = SubSeq(Before, 1, Len(Before) - n)
                            \o Effect(LastOp.op,
                                      SubSeq(Before, Len(Before) - n + 1, Len(Before)))
          ELSE error = StackUnderflow

\* C3 witness: rot has rewritten [5, -7, 0, 2] to [5, 0, 2, -7].
C3_Witness ==
    /\ Executed
    /\ LastOp = Rot
    /\ Before = << 5, -7, 0, 2 >>
    /\ stack = << 5, 0, 2, -7 >>
    /\ error = NoError

\* The number of operations `name` among the first k operations of ops.
Count(ops, k, name) == Cardinality({ j \in 1..k : ops[j].op = name })

\* DO and LOOP are balanced in ops: no prefix has more Loop than Do, and the
\* whole has as many.
Balanced(ops) ==
    /\ \A k \in 0..Len(ops) : Count(ops, k, "Do") >= Count(ops, k, "Loop")
    /\ Count(ops, Len(ops), "Do") = Count(ops, Len(ops), "Loop")

RECURSIVE DeepBalanced(_)
\* DO and LOOP are balanced in ops, in the branches of its conditionals and in
\* the bodies of its definitions, at every depth.
DeepBalanced(ops) ==
    /\ Balanced(ops)
    /\ \A k \in DOMAIN ops :
          /\ ops[k].op = "IfElse" =>
                DeepBalanced(ops[k].then_ops) /\ DeepBalanced(ops[k].else_ops)
          /\ ops[k].op = "Define" => DeepBalanced(ops[k].body)

\* The next operation is a reference to a word the dictionary defines.
Invokes(m) ==
    /\ AtOp(m)
    /\ CurOp(m).op = "Word"
    /\ to_lowercase(CurOp(m).s) \notin CompileOnlyWords
    /\ to_uppercase(CurOp(m).s) \in DOMAIN m.dictionary

InvokedBody(m) == m.dictionary[to_uppercase(CurOp(m).s)]

\* m with the word reference at idx replaced by the operations of its body.
Inlined(m) ==
    LET ops == Top(m).ops
        idx == Top(m).idx
    IN [m EXCEPT !.calls[Len(m.calls)].ops =
            SubSeq(ops, 1, idx) \o InvokedBody(m) \o SubSeq(ops, idx + 2, Len(ops))]

\* What a caller observes of a run.
Observed(m) ==
    [error |-> m.error, stack |-> m.stack, dictionary |-> m.dictionary,
     output |-> m.output]

\* From m, the invocation up to its return and the inlined body up to its last
\* operation leave the same stack, dictionary and output, with the same result.
InvocationIsInlining(m) ==
    LET called == eval_run_to(m, Len(m.calls), Top(m).idx + 1, Fuel)
        inlined == eval_run_to(Inlined(m), Len(m.calls),
                               Top(m).idx + Len(InvokedBody(m)), Fuel)
    IN (called.done /\ inlined.done) => Observed(called.m) = Observed(inlined.m)

\* C4 (as stated): invoking a defined word is equivalent to inlining its body,
\* for every stack and every body.
C4_InliningAnyBody == Invokes(M) => InvocationIsInlining(M)

\* C4 (amended): invoking a defined word is equivalent to inlining its body when
\* DO and LOOP are balanced in the body and in every body of the dictionary,
\* their conditional branches and nested definitions included.
C4_InliningBalancedBody ==
    (/\ Invokes(M)
     /\ \A w \in DOMAIN dictionary : DeepBalanced(dictionary[w]))
    => InvocationIsInlining(M)

\* C4 witness: QUADRUPLE, whose body invokes DOUBLE twice, is about to be invoked
\* on 3, and the run leaves [12].
C4_Witness ==
    /\ Invokes(M)
    /\ CurOp(M) = Word(QUADRUPLE)
    /\ stack = << 3 >>
    /\ \A w \in DOMAIN dictionary : DeepBalanced(dictionary[w])
    /\ eval_run_to(M, 1, 4, Fuel).m.stack = << 12 >>

\* The Define operations executed so far for a name, as indices of the history.
DefinesOf(name) ==
    { k \in DOMAIN trace : trace[k].op.op = "Define" /\ trace[k].op.name = name }

Max(S) == CHOOSE x \in S : \A y \in S : y <= x

\* The body of the most recent Define executed for a name.
LatestBody(name) == trace[Max(DefinesOf(name))].op.body

\* The word reference executed last has just called eval on a body.
JustInvoked ==
    /\ Executed
    /\ LastOp.op = "Word"
    /\ Last(trace).ok
    /\ Len(calls) = Last(trace).depth + 1

\* C5: the dictionary holds exactly the names defined so far, each with the body
\* of the most recent Define of that name, and a reference to a name runs that
\* body from its first operation.
C5_LastDefinitionWins ==
    /\ DOMAIN dictionary = { trace[k].op.name :
                               k \in { j \in DOMAIN trace : trace[j].op.op = "Define" } }
    /\ \A name \in DOMAIN dictionary : dictionary[name] = LatestBody(name)
    /\ JustInvoked =>
          /\ DefinesOf(to_uppercase(LastOp.s)) # {}
          /\ Top(M) = [ops |-> LatestBody(to_uppercase(LastOp.s)), idx |-> 0]

\* C5 witness: TEST was defined as [push 1], then as [push 2], and invoking it
\* has left [2].
C5_Witness ==
    /\ Finished(M)
    /\ input.ops = << Define(TEST, << Push(1) >>), Define(TEST, << Push(2) >>),
                      Word(TEST) >>
    /\ dictionary[TEST] = << Push(2) >>
    /\ stack = << 2 >>

\* The history entry k is a DO that entered its loop: start < limit.
Entered(k) ==
    /\ trace[k].op = Do
    /\ trace[k].ok
    /\ Len(trace[k].before) >= 2
    /\ Last(trace[k].before) < Last(Front(trace[k].before))

\* The operations executed while the loop entered at k was the innermost or an
\* enclosing loop: the history after k up to the LOOP that popped its frame.
Scope(k) ==
    { j \in (k + 1)..Len(trace) :
        \A i \in (k + 1)..j : Len(trace[i].lcs) >= Len(trace[k].lcs) + 1 }

\* The executions of LOOP, and of I, for the loop entered at k itself.
Passes(k) ==
    { j \in Scope(k) : trace[j].op = Loop /\ Len(trace[j].lcs) = Len(trace[k].lcs) + 1 }

Reads(k) ==
    { j \in Scope(k) : trace[j].op = I /\ Len(trace[j].lcs) = Len(trace[k].lcs) + 1 }

\* The loop-control stack after the last operation of the scope of k.
StackAfterScope(k) ==
    LET e == k + Cardinality(Scope(k))
    IN IF e = Len(trace) THEN loop_control_stack ELSE trace[e + 1].lcs

\* C6: in a program whose DO and LOOP are balanced, a DO that finds start on top
\* of limit with start < limit consumes both and pushes the frame of the loop;
\* every I of the loop reads start plus the number of LOOPs the loop has passed;
\* the loop passes LOOP at most limit - start times, and exactly limit - start
\* times when it completes, which pops exactly its frame.
C6_CountedLoop ==
    DeepBalanced(input.ops) =>
        \A k \in DOMAIN trace :
            Entered(k) =>
                LET start == Last(trace[k].before)
                    limit == Last(Front(trace[k].before))
                    completed == Len(StackAfterScope(k)) <= Len(trace[k].lcs)
                IN /\ trace[k].after = Below(trace[k].before, 2)
                   /\ \A j \in Scope(k) :
                         SubSeq(trace[j].lcs, 1, Len(trace[k].lcs)) = trace[k].lcs
                   /\ \A j \in Reads(k) :
                         /\ trace[j].ok
                         /\ trace[j].after =
                               Append(trace[j].before,
                                      start + Cardinality({ q \in Passes(k) : q < j }))
                   /\ Cardinality(Passes(k)) <= limit - start
                   /\ completed =>
                         /\ Cardinality(Passes(k)) = limit - start
                         /\ StackAfterScope(k) = trace[k].lcs

\* C6 witness: the loop from 0 to 5 pushing I has completed and left
\* [0, 1, 2, 3, 4] and an empty loop-control stack.
C6_Witness ==
    /\ Finished(M)
    /\ error = NoError
    /\ input.ops = << Define(TEST, << Push(5), Push(0), Do, I, Loop >>), Word(TEST) >>
    /\ Entered(5)
    /\ Cardinality(Passes(5)) = 5
    /\ stack = << 0, 1, 2, 3, 4 >>
    /\ loop_control_stack = << >>

\* The indices of the LOOPs that match the DO at idx under nesting: DO and LOOP
\* are balanced in the operations between them.
MatchingLoops(ops, idx) ==
    { j \in (idx + 1)..(Len(ops) - 1) :
        ops[j + 1] = Loop /\ Balanced(SubSeq(ops, idx + 2, j)) }

\* The DO at idx finds start on top of limit with start >= limit, and a LOOP
\* matches it.
SkipsLoop ==
    /\ At("Do")
    /\ Len(stack) >= 2
    /\ Last(stack) >= Last(Front(stack))
    /\ MatchingLoops(Top(M).ops, Top(M).idx) # {}

\* C7: a DO with start >= limit consumes the two bounds and nothing else of the
\* operand stack, pushes no frame, executes nothing else, and leaves the call at
\* the operation after the LOOP that matches it under nesting.
C7_SkippedLoop ==
    [][SkipsLoop =>
        /\ error' = NoError
        /\ stack' = Below(stack, 2)
        /\ loop_control_stack' = loop_control_stack
        /\ dictionary' = dictionary
        /\ output' = output
        /\ Len(trace') = Len(trace) + 1
        /\ calls' = [calls EXCEPT ![Len(calls)].idx =
                        1 + CHOOSE j \in MatchingLoops(Top(M).ops, Top(M).idx) : TRUE]
      ]_vars

\* C7 witness: 0 0 DO 2 0 DO I LOOP I LOOP 9 on [5]: the DO at 2 has just
\* skipped to the 9 at 10, past the inner DO and LOOP.
C7_Witness ==
    /\ Executed
    /\ LastOp = Do
    /\ Last(trace).idx = 2
    /\ input.ops = LoopProgram(0, 0, << Push(2), Push(0), Do, I, Loop, I >>)
    /\ calls = << [ops |-> input.ops, idx |-> 10] >>
    /\ stack = << 5 >>
    /\ loop_control_stack = << >>
    /\ error = NoError

\* C8: a conditional on an empty stack fails with StackUnderflow and calls eval
\* on neither branch; otherwise it pops the selector and nothing else, and calls
\* eval on the then-branch if the selector is non-zero, on the else-branch if
\* it is zero, from the first operation of that branch.
C8_Conditional ==
    [][At("IfElse") =>
        /\ Len(trace') = Len(trace) + 1
        /\ UNCHANGED << dictionary, loop_control_stack, output >>
        /\ IF stack = << >>
           THEN /\ error' = StackUnderflow
                /\ calls' = calls
                /\ stack' = stack
           ELSE /\ error' = NoError
                /\ stack' = Front(stack)
                /\ calls' = Append(calls,
                                   [ops |-> IF Last(stack) # 0 THEN CurOp(M).then_ops
                                                               ELSE CurOp(M).else_ops,
                                    idx |-> 0])
      ]_vars

\* C8 witness: a conditional with two different branches has found -7 on top,
\* popped it and called eval on its then-branch.
C8_Witness ==
    /\ Executed
    /\ LastOp.op = "IfElse"
    /\ LastOp.then_ops # LastOp.else_ops
    /\ Before # << >>
    /\ Last(Before) = -7
    /\ stack = Front(Before)
    /\ Len(calls) = Last(trace).depth + 1
    /\ Top(M) = [ops |-> LastOp.then_ops, idx |-> 0]

\* C9: the step that fails leaves the active calls, the dictionary, the
\* loop-control stack and the output as they were and removes at most the two
\* operands the failing operation popped; from then on every step returns the
\* same Err from the innermost call to its caller, executes no operation and
\* changes neither the stack nor the dictionary.
C9_ErrorsPropagate ==
    [][/\ (error = NoError /\ error' # NoError) =>
             /\ calls' = calls
             /\ UNCHANGED << dictionary, loop_control_stack, output >>
             /\ IsPrefix(stack', stack)
             /\ Len(stack) - Len(stack') <= 2
             /\ Len(trace') = Len(trace) + 1
       /\ error # NoError =>
             /\ error' = error
             /\ calls' = Front(calls)
             /\ UNCHANGED << stack, dictionary, loop_control_stack, output, trace >>
      ]_vars

\* C9 witness: an unknown word failed in a branch of a conditional of the body
\* of TEST, three calls deep; the Err has reached the outermost caller, with
\* operations of the top-level sequence left unexecuted and the definition of
\* TEST and the stack kept.
C9_Witness ==
    /\ Finished(M)
    /\ error = UnknownWord(foo)
    /\ Last(trace).depth = 3
    /\ ~Last(trace).ok
    /\ \E k \in DOMAIN input.ops :
          /\ input.ops[k] = Word(test)
          /\ k < Len(input.ops)
          /\ \A j \in DOMAIN trace : trace[j].depth = 1 => trace[j].idx < k
    /\ TEST \in DOMAIN dictionary
    /\ stack # << >>

\* The built-in operations that can fail.
BuiltinNames ==
    ArithNames \cup ShuffleNames \cup {"Eq", "Lt", "Gt", "Print", "IfElse", "Do"}

\* C10 (as stated): a built-in operation that fails with StackUnderflow or
\* DivisionByZero leaves the operand stack exactly as it found it.
C10_FailureLeavesStack ==
    (/\ Executed
     /\ ~Last(trace).ok
     /\ LastOp.op \in BuiltinNames
     /\ error \in {StackUnderflow, DivisionByZero})
    => Last(trace).after = Before

\* The call of process_line made last, and what it handed to evaluate_ops.
LineRead == session_log # << >>
LastLine == Last(session_log)

\* The evaluation of the operations of the last line, on the stack and the
\* dictionary the session had before it.
LastRun ==
    Evaluator_eval(LastLine.evaluated.val, LastLine.before.stack,
                   LastLine.before.dictionary, LastLine.before.overflow_checks)

\* C11 (as stated): when the evaluation of a parsed line fails at an unknown
\* word, the session keeps the stack and the dictionary as the operations of
\* the line before that word left them.
C11_SessionKeepsPartialEffects ==
    (/\ LineRead
     /\ LastLine.evaluated.some
     /\ LastRun.error.kind = "UnknownWord")
    => /\ stack = LastRun.stack
       /\ dictionary = LastRun.dictionary

\* The typed failures of eval.rs's EvalError.
IsEvalError(e) ==
    e.kind \in { "StackUnderflow", "DivisionByZero", "UnknownWord",
                 "CompileOnlyWord", "LoopStackUnderflow", "ControlStructureMismatch" }

\* C12 (as stated): on every pair of machine integers, the ends of the range
\* included, Add, Subtract, Multiply, Divide and Mod either push a machine
\* integer or return an EvalError; evaluation never aborts the process.
C12_FailuresAreTyped ==
    (trace # << >> /\ LastOp.op \in ArithNames /\ Len(Before) >= 2)
    => \/ /\ Last(trace).ok
          /\ Last(trace).after # << >>
          /\ InRange(Last(Last(trace).after))
       \/ IsEvalError(error)

\* The two classes of parse failure.
Incomplete(r) == r.err \in { UnterminatedDefinition, UnterminatedConditional }
Malformed(r) ==
    r.err.kind \in { "UnexpectedToken", "ExpectedWordName", "NestedDefinitionNotSupported",
                     "MismatchedDoLoop", "ControlWordOutsideDefinition" }

\* The tokens the last call of process_line parsed: the buffer it found
\* followed by the tokens of its line.
Cumulative == LastLine.before.pending_tokens \o LastLine.line

\* C13: after process_line the pending-token buffer is empty when the
\* cumulative tokens parsed, whether or not the evaluation failed, and when
\* they failed with a malformed-class error; it holds the earlier tokens
\* followed by the line's exactly when the parse failed with
\* UnterminatedDefinition or UnterminatedConditional, and then nothing was
\* evaluated.
C13_PendingTokenProtocol ==
    (LineRead /\ Cumulative # << >>)
    => LET r == parse(Cumulative)
       IN /\ (r.err = NoParseError \/ Malformed(r)) => pending_tokens = << >>
          /\ Incomplete(r) =>
                /\ pending_tokens = Cumulative
                /\ ~LastLine.evaluated.some
                /\ stack = LastLine.before.stack
                /\ dictionary = LastLine.before.dictionary
                /\ output = LastLine.before.output
          /\ pending_tokens = Cumulative => Incomplete(r)
          /\ r.err = NoParseError \/ Malformed(r) \/ Incomplete(r)

\* A second incomplete line is added to a buffer that holds an earlier one.
C13_Witness ==
    /\ LineRead
    /\ LastLine.before.pending_tokens # << >>
    /\ LastLine.line # << >>
    /\ Incomplete(LastLine.parsed)
    /\ pending_tokens = Cumulative

\* The buffer is emptied although the evaluation of the parsed line failed.
C13_WitnessFailedEvaluation ==
    /\ LineRead
    /\ LastLine.evaluated.some
    /\ LastRun.error # NoError
    /\ LastLine.before.pending_tokens # << >>
    /\ pending_tokens = << >>

RECURSIVE LinesFrom(_, _)
\* The tokens of the lines k..n of the session, concatenated.
LinesFrom(k, n) ==
    IF k > n THEN << >> ELSE session_log[k].line \o LinesFrom(k + 1, n)

\* The lines k..n are chunks of one input: line k found the buffer empty and
\* every chunk before the last left the parse incomplete.
Chunked(k, n) ==
    /\ session_log[k].before.pending_tokens = << >>
    /\ LinesFrom(k, n) # << >>
    /\ \A j \in k..(n - 1) : Incomplete(parse(LinesFrom(k, j)))

\* C14: when a token sequence arrives in chunks of which all but the last
\* leave the parse incomplete, the parse after the last chunk is the parse of
\* the whole sequence (it succeeds whenever that succeeds), the tree that is
\* evaluated is the tree of the whole sequence, and nothing of the earlier
\* chunks was evaluated before.
C14_IncrementalEqualsWhole ==
    \A k \in 1..Len(session_log) :
        LET n == Len(session_log)
            whole == parse(LinesFrom(k, n))
        IN Chunked(k, n)
           => /\ LastLine.parsed = whole
              /\ whole.err = NoParseError => LastLine.evaluated = Some(whole.ops)
              /\ \A j \in k..(n - 1) :
                    /\ ~session_log[j].evaluated.some
                    /\ session_log[j + 1].before.stack = session_log[k].before.stack
                    /\ session_log[j + 1].before.dictionary = session_log[k].before.dictionary
                    /\ session_log[j + 1].before.output = session_log[k].before.output

\* A definition that arrived in three chunks is parsed and evaluated whole.
C14_Witness ==
    /\ Len(session_log) = 3
    /\ Chunked(1, 3)
    /\ session_log[2].line # << >>
    /\ LastLine.evaluated.some
    /\ LastLine.evaluated.val # << >>
    /\ LastLine.parsed = parse(LinesFrom(1, 3))
    /\ dictionary # << >>

\* The token sequences that may close what a sequence of TokenInputs left
\* open: one more LOOP than it can have open DOs, THEN and `;`.
Continuations ==
    SeqsUpTo({ TokenWord(w_then), TokenWord(w_loop), Semicolon }, MaxTokens + 1)

Parsed == parsed # NotParsed

\* C15 (as stated): whenever parse fails with UnterminatedDefinition or
\* UnterminatedConditional, some continuation of the token sequence parses.
C15_IncompleteIsRecoverable ==
    (Parsed /\ Incomplete(parsed))
    => \E more \in Continuations : parse(tokens \o more).err = NoParseError

\* The token sequences that may follow a token sequence.
Extensions == SeqsUpTo({ TokenWord(test), Integer(1), Semicolon }, 2)

\* C16 (as stated): whenever parse fails with a malformed-class error, it
\* also fails on the same token sequence followed by any further tokens.
C16_MalformedIsFinal ==
    (Parsed /\ Malformed(parsed))
    => \A more \in Extensions : parse(tokens \o more).err # NoParseError

RECURSIVE OpenDos(_, _, _)
\* The number of DOs left open by the tokens from position pos on, or -1 when
\* a LOOP comes with no DO open.
OpenDos(toks, pos, open) ==
    IF pos > Len(toks) THEN open
    ELSE LET s == IF toks[pos].t = "Word" THEN to_lowercase(toks[pos].s) ELSE << >>
         IN IF s = w_do THEN OpenDos(toks, pos + 1, open + 1)
            ELSE IF s = w_loop
            THEN IF open = 0 THEN -1 ELSE OpenDos(toks, pos + 1, open - 1)
            ELSE OpenDos(toks, pos + 1, open)

\* The token sequence opens a definition and ends before its `;` with no
\* conditional in it: `:` and a name, then integers and words other than
\* IF, ELSE and THEN, with no LOOP that has no DO.
PlainOpenDefinition(toks) ==
    /\ Len(toks) >= 2
    /\ toks[1] = Colon
    /\ toks[2].t = "Word"
    /\ \A k \in 3..Len(toks) :
          /\ toks[k].t \in { "Integer", "Word" }
          /\ toks[k].t = "Word" => to_lowercase(toks[k].s) \notin { w_if, w_else, w_then }
    /\ OpenDos(toks, 3, 0) >= 0

\* Without conditionals, a definition that ends before its `;` gives
\* UnterminatedDefinition, also with a DO still open.
PlainUnterminatedDefinition ==
    (Parsed /\ PlainOpenDefinition(tokens))
    => /\ parsed.err = UnterminatedDefinition
       /\ ~Malformed(parsed)

PlainUnterminatedDefinitionSeen ==
    /\ Parsed
    /\ PlainOpenDefinition(tokens)
    /\ OpenDos(tokens, 3, 0) > 0
    /\ parsed.err = UnterminatedDefinition

RECURSIVE WellNested(_, _, _, _)
\* The tokens from position pos on are the body of a definition as the
\* language has it: integers and words, DO and LOOP balanced within the
\* definition and within each branch, conditionals with at most one ELSE,
\* no `:` and no `;`.  ifs holds, for every conditional that is open, whether
\* its ELSE was seen and the number of DOs open where its branch began;
\* open is the number of DOs open.  The result is the state at the end of
\* the tokens, or ok = FALSE.
WellNested(toks, pos, ifs, open) ==
    IF pos > Len(toks) THEN [ok |-> TRUE, ifs |-> ifs, open |-> open]
    ELSE LET tok == toks[pos]
             s == IF tok.t = "Word" THEN to_lowercase(tok.s) ELSE << >>
             floor == IF ifs = << >> THEN 0 ELSE Last(ifs).dos
             Bad == [ok |-> FALSE, ifs |-> ifs, open |-> open]
         IN IF tok.t \in { "Colon", "Semicolon" } THEN Bad
            ELSE IF s = w_if
            THEN WellNested(toks, pos + 1, Append(ifs, [else |-> FALSE, dos |-> open]), open)
            ELSE IF s = w_else
            THEN IF ifs # << >> /\ ~Last(ifs).else /\ open = floor
                 THEN WellNested(toks, pos + 1,
                                 Append(Front(ifs), [else |-> TRUE, dos |-> open]), open)
                 ELSE Bad
            ELSE IF s = w_then
            THEN IF ifs # << >> /\ open = floor
                 THEN WellNested(toks, pos + 1, Front(ifs), open)
                 ELSE Bad
            ELSE IF s = w_do THEN WellNested(toks, pos + 1, ifs, open + 1)
            ELSE IF s = w_loop
            THEN IF open > floor THEN WellNested(toks, pos + 1, ifs, open - 1) ELSE Bad
            ELSE WellNested(toks, pos + 1, ifs, open)

\* The token sequence opens a definition and ends before its `;`, outside
\* any open conditional.
OpenDefinition(toks) ==
    /\ Len(toks) >= 2
    /\ toks[1] = Colon
    /\ toks[2].t = "Word"
    /\ LET b == WellNested(toks, 3, << >>, 0) IN b.ok /\ b.ifs = << >>

\* C17 (as stated): a token sequence that opens a definition and ends before
\* its `;`, outside any open conditional, makes parse fail with
\* UnterminatedDefinition, which is none of the malformed-class errors, also
\* when a DO of the definition is still open at the end.
C17_UnterminatedDefinition ==
    (Parsed /\ OpenDefinition(tokens))
    => /\ parsed.err = UnterminatedDefinition
       /\ ~Malformed(parsed)

RECURSIVE ContainsDefine(_)
\* ops holds a Define, at the top or in a branch of a conditional or in the
\* body of a definition, at any depth.
ContainsDefine(ops) ==
    \E k \in DOMAIN ops :
        \/ ops[k].op = "Define"
        \/ ops[k].op = "IfElse" /\ (ContainsDefine(ops[k].then_ops) \/ ContainsDefine(ops[k].else_ops))

\* A `:` comes after the `:` and the name that open the token sequence, before
\* any `;`.
ColonInsideDefinition(toks) ==
    /\ Len(toks) >= 3
    /\ toks[1] = Colon
    /\ toks[2].t = "Word"
    /\ \E p \in 3..Len(toks) :
          /\ toks[p] = Colon
          /\ \A q \in 3..(p - 1) : toks[q] # Semicolon

\* C18 (as stated): a `:` between a `:` and its `;`, directly in the body or
\* inside a branch of a conditional, makes parse fail, and no tree parse
\* returns has a Define inside the body of a Define at any depth.
C18_NoNestedDefinition ==
    Parsed
    => /\ ColonInsideDefinition(tokens) => parsed.err # NoParseError
       /\ parsed.err = NoParseError
          => \A k \in DOMAIN parsed.ops :
                parsed.ops[k].op = "Define" => ~ContainsDefine(parsed.ops[k].body)

\* The body of the token sequence `: name body ;`.
BodyTokens(toks) == SubSeq(toks, 3, Len(toks) - 1)

\* The number of conditionals open before the token at position p of body.
IfDepthAt(body, p) == Len(WellNested(SubSeq(body, 1, p - 1), 1, << >>, 0).ifs)

LoopWords == { w_do, w_loop, w_i }

IsLoopWord(tok) == tok.t = "Word" /\ to_lowercase(tok.s) \in LoopWords

\* The token sequence is one definition `: name body ;` whose body is well
\* nested with every conditional closed and DO and LOOP balanced.
ClosedDefinition(toks) ==
    /\ Len(toks) >= 3
    /\ toks[1] = Colon
    /\ toks[2].t = "Word"
    /\ toks[Len(toks)] = Semicolon
    /\ LET b == WellNested(BodyTokens(toks), 1, << >>, 0)
       IN b.ok /\ b.ifs = << >> /\ b.open = 0

\* A closed definition with a conditional inside a branch of a conditional and
\* no DO, LOOP or I.
NestedConditional(toks) ==
    /\ ClosedDefinition(toks)
    /\ \A p \in DOMAIN BodyTokens(toks) : ~IsLoopWord(BodyTokens(toks)[p])
    /\ \E p \in DOMAIN BodyTokens(toks) : IfDepthAt(BodyTokens(toks), p) >= 2

\* ops holds an IfElse with an IfElse in one of its branches.
HasNestedIfElse(ops) ==
    \E k \in DOMAIN ops :
        /\ ops[k].op = "IfElse"
        /\ \E j \in DOMAIN (ops[k].then_ops \o ops[k].else_ops) :
              (ops[k].then_ops \o ops[k].else_ops)[j].op = "IfElse"

\* C19 (as stated): inside a definition, a balanced conditional in the then-
\* or else-branch of another conditional is accepted by parse and yields an
\* IfElse inside the branch of the outer IfElse.
C19_NestedConditionals ==
    (Parsed /\ NestedConditional(tokens))
    => /\ parsed.err = NoParseError
       /\ Len(parsed.ops) = 1
       /\ parsed.ops[1].op = "Define"
       /\ HasNestedIfElse(parsed.ops[1].body)

\* A closed definition with conditionals that are not nested and with DO, LOOP
\* or I in a branch of one.
LoopInBranch(toks) ==
    /\ ClosedDefinition(toks)
    /\ \A p \in DOMAIN BodyTokens(toks) : IfDepthAt(BodyTokens(toks), p) <= 1
    /\ \E p \in DOMAIN BodyTokens(toks) :
          IsLoopWord(BodyTokens(toks)[p]) /\ IfDepthAt(BodyTokens(toks), p) = 1

\* ops holds an IfElse with a Do, a Loop or an I in one of its branches.
HasLoopInBranch(ops) ==
    \E k \in DOMAIN ops :
        /\ ops[k].op = "IfElse"
        /\ \E j \in DOMAIN (ops[k].then_ops \o ops[k].else_ops) :
              (ops[k].then_ops \o ops[k].else_ops)[j].op \in { "Do", "Loop", "I" }

\* C20 (as stated): DO, LOOP and I within a branch of a conditional of a
\* definition, DO and LOOP balanced inside the branch, are accepted by parse
\* and yield Do, Loop and I operations inside that branch.
C20_LoopsInBranches ==
    (Parsed /\ LoopInBranch(tokens))
    => /\ parsed.err = NoParseError
       /\ Len(parsed.ops) = 1
       /\ parsed.ops[1].op = "Define"
       /\ HasLoopInBranch(parsed.ops[1].body)

IsControlWord(tok) == tok.t = "Word" /\ to_lowercase(tok.s) \in { w_do, w_loop, w_i, w_if, w_else, w_then }

\* The token at position p is a structural word outside any definition: the
\* tokens before it are integers, words that are not structural, and whole
\* definitions that parse accepted.
OutsideDefinition(toks, p) ==
    /\ p \in DOMAIN toks
    /\ IsControlWord(toks[p])
    /\ parse(SubSeq(toks, 1, p - 1)).err = NoParseError

RECURSIVE DefinesBalanced(_)
\* Every Define of ops, at any depth, has a body whose top-level operations
\* are balanced in Do and Loop.
DefinesBalanced(ops) ==
    \A k \in DOMAIN ops :
        /\ ops[k].op = "Define" => Balanced(ops[k].body) /\ DefinesBalanced(ops[k].body)
        /\ ops[k].op = "IfElse" =>
              DefinesBalanced(ops[k].then_ops) /\ DefinesBalanced(ops[k].else_ops)

\* The number of DO tokens less the number of LOOP tokens before position p.
DosBefore(toks, p) ==
    Cardinality({ q \in 3..(p - 1) : toks[q].t = "Word" /\ to_lowercase(toks[q].s) = w_do })
    - Cardinality({ q \in 3..(p - 1) : toks[q].t = "Word" /\ to_lowercase(toks[q].s) = w_loop })

\* parse reaches position p in the body of the definition that the token
\* sequence opens: the tokens before p are that definition, still open, with
\* its conditionals closed.
InBody(toks, p) ==
    /\ p \in DOMAIN toks
    /\ p >= 3
    /\ toks[1] = Colon
    /\ \A q \in 2..(p - 1) : toks[q].t \notin { "Colon", "Semicolon" }
    /\ parse(SubSeq(toks, 1, p - 1)).err = UnterminatedDefinition

\* C22: a LOOP with no DO open in its definition and a `;` while a DO is open
\* both make parse fail with MismatchedDoLoop; in every Define body that parse
\* returns, each prefix of the top-level operations has at least as many Do
\* as Loop and the whole has as many.
C22_DoLoopBalanced ==
    Parsed
    => /\ \A p \in DOMAIN tokens :
             (/\ InBody(tokens, p)
              /\ \/ tokens[p].t = "Word" /\ to_lowercase(tokens[p].s) = w_loop
                    /\ DosBefore(tokens, p) = 0
                 \/ tokens[p] = Semicolon /\ DosBefore(tokens, p) > 0)
             => parsed.err = MismatchedDoLoop
       /\ parsed.err = NoParseError => DefinesBalanced(parsed.ops)

\* A definition with a DO and its LOOP is accepted.
C22_Witness ==
    /\ Parsed
    /\ parsed.err = NoParseError
    /\ \E k \in DOMAIN parsed.ops :
          /\ parsed.ops[k].op = "Define"
          /\ Count(parsed.ops[k].body, Len(parsed.ops[k].body), "Loop") > 0

\* A `;` comes while a DO is open, and a LOOP comes with no DO open.
C22_WitnessMismatch ==
    /\ Parsed
    /\ parsed.err = MismatchedDoLoop
    /\ \E p \in DOMAIN tokens : InBody(tokens, p) /\ tokens[p] = Semicolon /\ DosBefore(tokens, p) > 0

\* parse reaches position p outside any definition: the tokens before it are
\* accepted by parse as a complete input.
Interpreting(toks, p) ==
    /\ p \in DOMAIN toks
    /\ parse(SubSeq(toks, 1, p - 1)).err = NoParseError

\* The `:` at position p is not followed by a word: another token follows or
\* the input ends.
NoNameAfter(toks, p) ==
    /\ toks[p] = Colon
    /\ p = Len(toks) \/ toks[p + 1].t # "Word"

\* C23: a `;` with no open definition fails with UnexpectedToken(Semicolon),
\* and a `:` that is not followed by a word (an integer follows, or the
\* input ends) fails with ExpectedWordName; both are malformed-class errors
\* and not incomplete ones.
C23_StrayDelimiters ==
    Parsed
    => \A p \in DOMAIN tokens :
          Interpreting(tokens, p)
          => /\ tokens[p] = Semicolon
                => /\ parsed.err.kind = "UnexpectedToken"
                   /\ parsed.err.token = Semicolon
                   /\ Malformed(parsed) /\ ~Incomplete(parsed)
             /\ NoNameAfter(tokens, p)
                => /\ parsed.err.kind = "ExpectedWordName"
                   /\ Malformed(parsed) /\ ~Incomplete(parsed)

\* The input ends right after a `:` that follows a closed definition.
C23_Witness ==
    /\ Parsed
    /\ Len(tokens) > 3
    /\ Interpreting(tokens, Len(tokens))
    /\ NoNameAfter(tokens, Len(tokens))
    /\ parsed.err.kind = "ExpectedWordName"

\* An integer follows the `:`; a `;` comes with no definition open.
C23_WitnessInteger ==
    /\ Parsed
    /\ \E p \in DOMAIN tokens :
          /\ Interpreting(tokens, p) /\ NoNameAfter(tokens, p)
          /\ p < Len(tokens) /\ tokens[p + 1].t = "Integer"
    /\ parsed.err.kind = "ExpectedWordName"

C23_WitnessSemicolon ==
    /\ Parsed
    /\ \E p \in DOMAIN tokens : Interpreting(tokens, p) /\ tokens[p] = Semicolon
    /\ parsed.err.kind = "UnexpectedToken"

Least(S) == CHOOSE x \in S : \A y \in S : x <= y

IsWord(tok, w) == tok.t = "Word" /\ to_lowercase(tok.s) = w

\* The nesting depth of conditionals after the token at position q, for the
\* IF at position p: 1 after the IF itself.
DepthAfter(toks, p, q) ==
    1 + Cardinality({ r \in (p + 1)..q : IsWord(toks[r], w_if) })
      - Cardinality({ r \in (p + 1)..q : IsWord(toks[r], w_then) })

\* The positions of the THENs that close the IF at position p; the least is
\* the matching THEN.
Closers(toks, p) ==
    { q \in (p + 1)..Len(toks) : IsWord(toks[q], w_then) /\ DepthAfter(toks, p, q) = 0 }

\* The positions of the ELSEs at nesting depth 1 of the IF at position p whose
\* matching THEN is at position m.
ElsesOf(toks, p, m) ==
    { e \in (p + 1)..(m - 1) : IsWord(toks[e], w_else) /\ DepthAfter(toks, p, e - 1) = 1 }

\* The branches the IF at position p has when its matching THEN is at m: the
\* tokens before the ELSE at depth 1, and the tokens between it and the THEN.
BranchesOf(toks, p, m) ==
    IF ElsesOf(toks, p, m) = { }
    THEN [then_toks |-> SubSeq(toks, p + 1, m - 1), else_toks |-> << >>]
    ELSE LET e == Least(ElsesOf(toks, p, m))
         IN [then_toks |-> SubSeq(toks, p + 1, e - 1),
             else_toks |-> SubSeq(toks, e + 1, m - 1)]

\* What the scan of parse made of the IF at position p.
Scanned(toks, p) == scan_if(toks, p + 1, 1, FALSE, << >>, << >>)

\* C24 (as stated): for an IF inside a definition, the tokens before the ELSE
\* at depth 1 are the then-branch, the tokens between that ELSE and the
\* matching THEN are the else-branch, without ELSE the else-branch is empty,
\* the tokens of nested conditionals stay in their branch, and an input that
\* ends before the matching THEN fails with UnterminatedConditional.
C24_BranchSplit ==
    Parsed
    => \A p \in DOMAIN tokens :
          (InBody(tokens, p) /\ IsWord(tokens[p], w_if))
          => IF Closers(tokens, p) = { }
             THEN parsed.err = UnterminatedConditional
             ELSE LET b == BranchesOf(tokens, p, Least(Closers(tokens, p)))
                  IN /\ Scanned(tokens, p).then_toks = b.then_toks
                     /\ Scanned(tokens, p).else_toks = b.else_toks
                     /\ Scanned(tokens, p).next = Least(Closers(tokens, p)) + 1

RECURSIVE Kept(_, _, _, _)
\* The tokens at the positions lo..hi that are not in drop.
Kept(toks, lo, hi, drop) ==
    IF lo > hi THEN << >>
    ELSE (IF lo \in drop THEN << >> ELSE << toks[lo] >>) \o Kept(toks, lo + 1, hi, drop)

\* C24 (amended): for an IF inside a definition, the tokens before the first
\* ELSE at depth 1 are the then-branch and the tokens between that ELSE and
\* the matching THEN, less any further ELSE at depth 1, are the else-branch;
\* without ELSE the else-branch is empty, the tokens of nested conditionals
\* stay in their branch, and an input that ends before the matching THEN
\* fails with UnterminatedConditional.
C24_BranchSplitFirstElse ==
    Parsed
    => \A p \in DOMAIN tokens :
          (InBody(tokens, p) /\ IsWord(tokens[p], w_if))
          => IF Closers(tokens, p) = { }
             THEN parsed.err = UnterminatedConditional
             ELSE LET m == Least(Closers(tokens, p))
                      b == BranchesOf(tokens, p, m)
                      elses == ElsesOf(tokens, p, m)
                  IN /\ Scanned(tokens, p).then_toks = b.then_toks
                     /\ Scanned(tokens, p).else_toks =
                           IF elses = { } THEN << >>
                           ELSE Kept(tokens, Least(elses) + 1, m - 1, elses)
                     /\ Scanned(tokens, p).next = m + 1

\* A conditional with an ELSE and a conditional nested in its then-branch is
\* split at the ELSE of the outer one.
C24_Witness ==
    /\ Parsed
    /\ \E p \in DOMAIN tokens :
          /\ InBody(tokens, p) /\ IsWord(tokens[p], w_if)
          /\ Closers(tokens, p) # { }
          /\ Cardinality(ElsesOf(tokens, p, Least(Closers(tokens, p)))) = 1
          /\ \E q \in DOMAIN Scanned(tokens, p).then_toks :
                IsWord(Scanned(tokens, p).then_toks[q], w_then)
          /\ Scanned(tokens, p).in_else

\* The loop-control stack after the k-th operation of the history.
LcsAfter(k) == IF k = Len(trace) THEN loop_control_stack ELSE trace[k + 1].lcs

\* C25: I and LOOP with an empty loop-control stack fail with
\* LoopStackUnderflow and push nothing; I with a non-empty loop-control stack
\* pushes the index of the innermost frame and leaves the loop-control stack
\* as it was.
C25_LoopStackUnderflow ==
    \A k \in DOMAIN trace :
        /\ (trace[k].op \in { I, Loop } /\ trace[k].lcs = << >>)
           => /\ ~trace[k].ok
              /\ k = Len(trace)
              /\ error = LoopStackUnderflow
              /\ trace[k].after = trace[k].before
              /\ LcsAfter(k) = << >>
        /\ (trace[k].op = I /\ trace[k].lcs # << >>)
           => /\ trace[k].ok
              /\ trace[k].after = Append(trace[k].before, Last(trace[k].lcs)[2])
              /\ LcsAfter(k) = trace[k].lcs

\* I has read the index of the inner of two loops, which differs from the
\* index of the outer one.
C25_Witness ==
    \E k \in DOMAIN trace :
        /\ trace[k].op = I
        /\ Len(trace[k].lcs) = 2
        /\ trace[k].lcs[1][2] # trace[k].lcs[2][2]
        /\ trace[k].after = Append(trace[k].before, trace[k].lcs[2][2])

\* I and LOOP have failed on an empty loop-control stack.
C25_WitnessUnderflow ==
    /\ Executed
    /\ LastOp = Loop
    /\ Last(trace).lcs = << >>
    /\ Before # << >>
    /\ error = LoopStackUnderflow
    /\ stack = Before

\* The last operation executed is a reference to a word whose upper-cased
\* name the dictionary does not hold.
UndefinedReference ==
    /\ Executed
    /\ LastOp.op = "Word"
    /\ to_uppercase(LastOp.s) \notin DOMAIN dictionary

\* C26 (as stated): a reference to a word whose upper-cased name has no
\* dictionary entry fails with UnknownWord carrying the word as written, also
\* inside the body of an invoked word, and does not change the operand stack.
C26_UnknownWord ==
    UndefinedReference
    => /\ error = UnknownWord(LastOp.s)
       /\ stack = Before

\* C26 (amended): a reference to a word that is none of if, else, then, do,
\* loop, i in any letter case and whose upper-cased name has no dictionary
\* entry fails with UnknownWord carrying the word as written, also inside the
\* body of an invoked word; a reference to one of those six words fails with
\* CompileOnlyWord carrying the word as written; neither changes the operand
\* stack.
C26_UnknownOrCompileOnlyWord ==
    /\ (UndefinedReference /\ to_lowercase(LastOp.s) \notin CompileOnlyWords)
       => /\ error.kind = "UnknownWord"
          /\ error.word = LastOp.s
          /\ stack = Before
    /\ (Executed /\ LastOp.op = "Word" /\ to_lowercase(LastOp.s) \in CompileOnlyWords)
       => /\ error.kind = "CompileOnlyWord"
          /\ error.word = LastOp.s
          /\ stack = Before

\* An unknown word written in lower case has failed inside the body of an
\* invoked word, on a stack that is not empty.
C26_Witness ==
    /\ UndefinedReference
    /\ LastOp.s = foo
    /\ Last(trace).depth = 2
    /\ Before # << >>
    /\ error.kind = "UnknownWord"
    /\ error.word = foo
    /\ stack = Before

\* The k-th operation executed is a reference to a word that a Define executed
\* before it defined under the upper-cased name of the reference.
RefersToDefined(k) ==
    /\ trace[k].op.op = "Word"
    /\ \E j \in 1..(k - 1) :
          trace[j].op.op = "Define" /\ trace[j].op.name = to_uppercase(trace[k].op.s)

\* C27: parse stores a definition under the upper-cased name, and a word
\* defined through the parser in any letter case is found and executed when
\* it is referenced in any other letter case: `: double 2 * ; 6 DOUBLE`
\* leaves [12].
C27_CaseInsensitiveNames ==
    Parsed
    => /\ parsed.err = NoParseError
       /\ parsed.ops[1] = [op |-> "Define", name |-> DOUBLE, body |-> parsed.ops[1].body]
       /\ \A k \in DOMAIN trace :
             RefersToDefined(k)
             => /\ trace[k].ok
                /\ k < Len(trace) =>
                      /\ trace[k + 1].depth = trace[k].depth + 1
                      /\ trace[k + 1].op = parsed.ops[1].body[1]
       /\ (calls = << >> /\ tokens[Len(tokens)].s # foo /\ trace # << >>)
          => /\ error = NoError
             /\ stack = << 12 >>

\* `: double 2 * ; 6 DOUBLE` has left [12].
C27_Witness ==
    /\ Parsed
    /\ tokens = << Colon, TokenWord(double), Integer(2), TokenWord(<< "*" >>),
                   Semicolon, Integer(6), TokenWord(DOUBLE) >>
    /\ calls = << >>
    /\ error = NoError
    /\ stack = << 12 >>

\* C28 (as stated): in every session state an entry of the dictionary that
\* carries compiled code carries the code compiled from the body it has now;
\* a redefinition, or a line with a redefinition that fails to evaluate,
\* leaves no entry with a body and the code of another body.
C28_CompiledFromCurrentBody ==
    \A name \in DOMAIN compiled_code :
        /\ name \in DOMAIN dictionary
        /\ compiled_code[name] = dictionary[name]

\* The definitions of the last line on which the generator of the build fails.
FailedToCompile ==
    { k \in DOMAIN parse(Cumulative).ops :
        LET op == parse(Cumulative).ops[k]
        IN /\ op.op = "Define"
           /\ ~compile_word(op.name, op.body, LastLine.before.jit.val) }

\* The last line was parsed and the generator failed on one of its definitions.
JitFailed ==
    /\ LineRead
    /\ LastLine.before.jit.some
    /\ parse(Cumulative).err = NoParseError
    /\ FailedToCompile # {}

\* The evaluation of the operations parse gives for the last line.
RunOfParsed ==
    Evaluator_eval(parse(Cumulative).ops, LastLine.before.stack,
                   LastLine.before.dictionary, LastLine.before.overflow_checks)

\* C29: when the native-code generation fails for a definition of a parsed
\* line, process_line still evaluates the operations of the line: what the
\* evaluation prints is printed, and when it succeeds the session has its
\* stack and its dictionary, the definition is in the dictionary with its
\* body and without compiled code, and the failure prints nothing on the
\* standard output.
C29_JitFailureNotFatal ==
    JitFailed
    => LET ops == parse(Cumulative).ops
           printed == SubSeq(output, Len(LastLine.before.output) + 1, Len(output))
       IN /\ Len(output) >= Len(LastLine.before.output)
          /\ \E k \in 0..Len(printed) :
                /\ SubSeq(printed, k + 1, Len(printed)) = RunOfParsed.output
                /\ \A j \in 1..k :
                      \E d \in (DOMAIN ops) \ FailedToCompile :
                          ops[d].op = "Define" /\ printed[j] = [jit_compiled |-> ops[d].name]
          /\ RunOfParsed.error = NoError
             => /\ stack = RunOfParsed.stack
                /\ dictionary = RunOfParsed.dictionary
                /\ \A k \in FailedToCompile :
                      /\ ops[k].name \in DOMAIN dictionary
                      /\ (\A j \in DOMAIN ops :
                             (j > k /\ ops[j].op = "Define") => ops[j].name # ops[k].name)
                         => /\ dictionary[ops[k].name] = ops[k].body
                            /\ ops[k].name \notin DOMAIN compiled_code

\* `: Double dup + ;` was read in a build whose generator fails, then `5` and
\* `DOUBLE`, which has left [10].
C29_Witness ==
    /\ Len(session_log) = 3
    /\ jit = Some({})
    /\ session_log[1].line = << Colon, TokenWord(Double), TokenWord(<< "d", "u", "p" >>),
                                TokenWord(<< "+" >>), Semicolon >>
    /\ session_log[2].line = << Integer(5) >>
    /\ session_log[3].line = << TokenWord(DOUBLE) >>
    /\ DOUBLE \in DOMAIN dictionary
    /\ DOUBLE \notin DOMAIN compiled_code
    /\ stack = << 10 >>

\* The generator failed on the definition of the last line, which was
\* evaluated and has put the definition in the dictionary.
C29_WitnessFailed ==
    /\ JitFailed
    /\ RunOfParsed.error = NoError
    /\ dictionary # LastLine.before.dictionary

\* The relation a comparison computes.
Relation(op, a, b) ==
    CASE op = Eq -> a = b
      [] op = Lt -> a < b
      [] op = Gt -> a > b

C30_WitnessFalse ==
    /\ trace # << >>
    /\ LastOp = Gt
    /\ Len(Before) >= 2
    /\ Before[Len(Before) - 1] < Last(Before)
    /\ Last(trace).after = Append(SubSeq(Before, 1, Len(Before) - 2), 0)

\* Eq has pushed -1 for two equal values.
C30_WitnessEqual ==
    /\ trace # << >>
    /\ LastOp = Eq
    /\ Len(Before) >= 2
    /\ Last(trace).ok
    /\ Last(Last(trace).after) = -1

\* A comparison has failed on a stack of one value.
C30_WitnessUnderflow ==
    /\ trace # << >>
    /\ LastOp \in { Eq, Lt, Gt }
    /\ Len(Before) = 1
    /\ error = StackUnderflow

\* The table of the reserved spellings.
ReservedTable ==
    { [spelling |-> << "=" >>, op |-> Eq], [spelling |-> << "<" >>, op |-> Lt],
      [spelling |-> << ">" >>, op |-> Gt], [spelling |-> << "+" >>, op |-> Add],
      [spelling |-> << "-" >>, op |-> Subtract], [spelling |-> << "*" >>, op |-> Multiply],
      [spelling |-> << "/" >>, op |-> Divide], [spelling |-> << "m", "o", "d" >>, op |-> Mod],
      [spelling |-> << "." >>, op |-> PrintOp], [spelling |-> << ".", "s" >>, op |-> PrintStack],
      [spelling |-> << "d", "u", "p" >>, op |-> Dup],
      [spelling |-> << "d", "r", "o", "p" >>, op |-> Drop],
      [spelling |-> << "s", "w", "a", "p" >>, op |-> Swap],
      [spelling |-> << "o", "v", "e", "r" >>, op |-> Over],
      [spelling |-> << "r", "o", "t" >>, op |-> Rot],
      [spelling |-> << "?", "d", "u", "p" >>, op |-> QDup],
      [spelling |-> << "2", "d", "u", "p" >>, op |-> TwoDup],
      [spelling |-> << "2", "d", "r", "o", "p" >>, op |-> TwoDrop],
      [spelling |-> << "2", "s", "w", "a", "p" >>, op |-> TwoSwap],
      [spelling |-> << "2", "o", "v", "e", "r" >>, op |-> TwoOver],
      [spelling |-> << "-", "r", "o", "t" >>, op |-> MinusRot] }

\* Two words are the same up to the case of their letters.
SameIgnoringCase(a, b) ==
    /\ Len(a) = Len(b)
    /\ \A k \in DOMAIN a :
          \/ a[k] = b[k]
          \/ \E j \in DOMAIN LowerLetters :
                { a[k], b[k] } = { LowerLetters[j], UpperLetters[j] }

\* The built-in operations of the table for a word: one for a reserved
\* spelling in any letter case, none for another word.
BuiltinOf(s) == { e.op : e \in { r \in ReservedTable : SameIgnoringCase(r.spelling, s) } }

\* What a word atom is to become: its built-in operation, or a reference
\* with the spelling it was written with.
Resolved(s) ==
    IF BuiltinOf(s) # {} THEN CHOOSE op \in BuiltinOf(s) : TRUE ELSE Word(s)

\* The word is one of the structural words of parse, in any letter case.
Structural(s) ==
    \E c \in { w_if, w_else, w_then, w_do, w_loop, w_i } : SameIgnoringCase(c, s)

\* The program is `: name 1 ; 3 5 ref`, the name a reserved spelling and ref
\* the same spelling in any letter case.
Shadowing ==
    /\ Len(tokens) = 7
    /\ tokens[1] = Colon
    /\ BuiltinOf(tokens[2].s) # {}
    /\ SameIgnoringCase(tokens[2].s, tokens[7].s)

\* The evaluation of `3 5 ref` with no definition before it.
Unshadowed ==
    eval_run(eval_enter(<< Push(3), Push(5), Resolved(tokens[7].s) >>,
                        << >>, << >>, << >>, overflow_checks), Fuel)

C31_WitnessInDefinition ==
    /\ Parsed
    /\ tokens = << Colon, TokenWord(test), TokenWord(<< "2", "s", "W", "a", "P" >>),
                   Semicolon >>
    /\ parsed = ParseOk(<< Define(TEST, << TwoSwap >>) >>)

\* `FoO` alone has become a reference written `FoO`.
C31_WitnessReference ==
    /\ Parsed
    /\ tokens = << TokenWord(<< "F", "o", "O" >>) >>
    /\ parsed = ParseOk(<< Word(<< "F", "o", "O" >>) >>)

\* What an executed Print or PrintStack writes, given the stack before it.
Emission(e) ==
    IF e.op = PrintOp THEN [top |-> Last(e.before)]
    ELSE [len |-> Len(e.before), items |-> e.before]

\* The executed operations that write: PrintStack, and Print that did not fail.
Writes(e) == e.op = PrintStack \/ (e.op = PrintOp /\ e.ok)

RECURSIVE Emitted(_, _)
\* What the operations trace[k..] have written, in order.
Emitted(tr, k) ==
    IF k > Len(tr) THEN << >>
    ELSE IF Writes(tr[k]) THEN << Emission(tr[k]) >> \o Emitted(tr, k + 1)
    ELSE Emitted(tr, k + 1)

\* C32: Print on a stack that is not empty takes the top value off, leaves
\* the values below it and writes that value; on an empty stack it fails with
\* StackUnderflow and writes nothing.  PrintStack leaves the stack as it is
\* at every depth, the empty stack included, and writes the depth and all
\* the values from the bottom to the top.  The output is what these
\* operations wrote, in order, each a function of the stack before it.
C32_PrintAndPrintStack ==
    /\ \A k \in DOMAIN trace :
          /\ trace[k].op = PrintOp
             => IF trace[k].before = << >>
                THEN ~trace[k].ok /\ k = Len(trace) /\ error = StackUnderflow
                ELSE trace[k].ok /\ trace[k].after = Front(trace[k].before)
          /\ trace[k].op = PrintStack
             => trace[k].ok /\ trace[k].after = trace[k].before
    /\ output = Emitted(trace, 1)
    /\ \A k \in DOMAIN trace :
          (k = Len(trace) /\ Writes(trace[k]))
          => /\ output # << >>
             /\ trace[k].op = PrintOp => Last(output).top = Last(trace[k].before)
             /\ trace[k].op = PrintStack
                => /\ Last(output).len = Len(trace[k].before)
                   /\ Len(Last(output).items) = Last(output).len
                   /\ \A j \in 1..Len(trace[k].before) :
                         Last(output).items[j] = trace[k].before[j]

\* PrintStack has written a stack of three values and has left it.
C32_Witness ==
    /\ trace # << >>
    /\ LastOp = PrintStack
    /\ Len(Before) = 3
    /\ Before[1] # Before[3]
    /\ Last(trace).after = Before
    /\ Last(output) = [len |-> 3, items |-> Before]

\* Print has taken the top of a stack of two values and has written it.
C32_WitnessPrint ==
    /\ trace # << >>
    /\ LastOp = PrintOp
    /\ Len(Before) = 2
    /\ Last(trace).after = << Before[1] >>
    /\ Last(output) = [top |-> Before[2]]

\* Print has failed on the empty stack, and PrintStack has written it.
C32_WitnessEmpty ==
    /\ trace # << >>
    /\ Before = << >>
    /\ \/ LastOp = PrintOp /\ error = StackUnderflow /\ output = << >>
       \/ LastOp = PrintStack /\ output = << [len |-> 0, items |-> << >>] >>

\* eval has returned from the operations parse gave for the program.
Returned == Parsed /\ parsed.err = NoParseError /\ calls = << >> /\ trace # << >>

\* C33 (as stated): for every program parse accepts, the loop-control stack
\* after eval has returned, with Ok or with an error, is the one eval was
\* called with (here the empty one): no frame of a loop that is no longer
\* executing is left behind.
C33_LoopStackRestored ==
    Returned => loop_control_stack = << >>

\* The part of C33 that holds: after eval has returned Ok the loop-control
\* stack is the one eval was called with.
LoopStackRestoredOnOk ==
    (Returned /\ error = NoError) => loop_control_stack = << >>

\* A loop has run to its end and eval has returned Ok.
LoopCompleted ==
    /\ Returned
    /\ error = NoError
    /\ \E k \in DOMAIN trace : trace[k].op = Loop
    /\ loop_control_stack = << >>

RECURSIVE HasStructuralReference(_)
\* The operations hold, at some depth, a reference to a word named if, else,
\* then, do, loop or i.
HasStructuralReference(ops) ==
    \E k \in DOMAIN ops :
        \/ ops[k].op = "Word" /\ Structural(ops[k].s)
        \/ ops[k].op = "Define" /\ HasStructuralReference(ops[k].body)
        \/ ops[k].op = "IfElse"
           /\ (HasStructuralReference(ops[k].then_ops)
               \/ HasStructuralReference(ops[k].else_ops))

\* C34 (as stated): the operations parse returns hold at no depth a reference
\* to a word named if, else, then, do, loop or i, and the evaluation of a
\* program parse accepted never fails with CompileOnlyWord.
C34_NoStructuralReference ==
    (Parsed /\ parsed.err = NoParseError)
    => /\ ~HasStructuralReference(parsed.ops)
       /\ error.kind # "CompileOnlyWord"

\* The evaluation of a program parse accepted has failed with CompileOnlyWord.
CompileOnlyWordRaised ==
    /\ Returned
    /\ error.kind = "CompileOnlyWord"

\* The body the dictionary holds for a name when the operation k of the
\* history is executed: that of the last Define of the name executed before.
BodyBefore(k, name) ==
    trace[Max({ j \in DefinesOf(name) : j < k })].op.body

\* The operations executed by the call of eval the word reference k made on
\* the body of its word, those of deeper calls left out.
InvocationOf(k) ==
    { j \in (k + 1)..Len(trace) :
        /\ trace[j].depth = trace[k].depth + 1
        /\ \A i \in (k + 1)..j : trace[i].depth > trace[k].depth }

\* The call made by the word reference k has returned Ok.
InvocationReturned(k) ==
    /\ error = NoError
    /\ \/ \E i \in (k + 1)..Len(trace) : trace[i].depth <= trace[k].depth
       \/ Len(calls) <= trace[k].depth

\* The Define operations executed for the word of k while its call was active.
RedefinedDuring(k) ==
    { j \in DefinesOf(to_uppercase(trace[k].op.s)) :
        /\ j > k
        /\ \A i \in (k + 1)..j : trace[i].depth > trace[k].depth }

Straight(body) == \A i \in DOMAIN body : body[i].op \notin { "Do", "Loop" }

\* C35: the call of a word executes the body the dictionary held for the word
\* when the call was made, to its end, also when the word is redefined while
\* the call is active; a call made after the redefinition executes the
\* replacement.
C35_BodyClonedAtInvocation ==
    \A k \in DOMAIN trace :
        (trace[k].op.op = "Word" /\ trace[k].ok)
        => LET body == BodyBefore(k, to_uppercase(trace[k].op.s))
           IN /\ \A j \in InvocationOf(k) :
                    /\ trace[j].idx < Len(body)
                    /\ trace[j].op = body[trace[j].idx + 1]
              /\ (InvocationReturned(k) /\ Straight(body))
                 => { trace[j].idx : j \in InvocationOf(k) } = 0..(Len(body) - 1)

\* TEST has redefined itself while it was executing, has finished with the
\* body it started with, and the next call has executed the replacement.
C35_Witness ==
    /\ Finished(M)
    /\ input.ops = << Define(TEST, << Push(1), Define(TEST, << Push(2) >>), Push(3) >>),
                      Word(TEST), Word(test) >>
    /\ RedefinedDuring(2) # {}
    /\ error = NoError
    /\ stack = << 1, 3, 2 >>

\* TEST has called itself after redefining itself in a branch: the inner call
\* executed the replacement and the outer call finished with its own body.
C35_WitnessNested ==
    /\ Finished(M)
    /\ error = NoError
    /\ Len(input.ops) = 2
    /\ \E k \in DOMAIN trace : trace[k].op.op = "Word" /\ RedefinedDuring(k) # {}
    /\ stack = << 2, 3 >>

\* The Define operations executed for a name before the operation k.
DefinesBefore(k, name) == { j \in DefinesOf(name) : j < k }

\* The word reference k was executed after a Define of its word: it has made
\* a call, and the call executes the body of the last such Define, whenever
\* the word that holds the reference was defined.
BoundAtInvocation(k) ==
    /\ trace[k].ok
    /\ LET body == BodyBefore(k, to_uppercase(trace[k].op.s))
       IN /\ (k = Len(trace) /\ error = NoError /\ Len(calls) = trace[k].depth + 1)
             => Top(M) = [ops |-> body, idx |-> 0]
          /\ (k < Len(trace) /\ body # << >>)
             => /\ trace[k + 1].depth = trace[k].depth + 1
                /\ trace[k + 1].idx = 0
                /\ trace[k + 1].op = body[1]

\* The word reference k has failed with the error e: it is the last operation
\* executed, and no Define that comes after it has been inserted.
FailedReference(k, e) ==
    /\ ~trace[k].ok
    /\ k = Len(trace)
    /\ error = e
    /\ trace[k].after = trace[k].before
    /\ DOMAIN dictionary = { trace[j].op.name :
                               j \in { i \in 1..(k - 1) : trace[i].op.op = "Define" } }

\* C36 (as stated): a word reference executes the body its word has in the
\* dictionary when the reference is evaluated, the last one defined, also
\* when the word that holds the reference was defined before; a reference
\* evaluated before any Define of its word fails with UnknownWord, and a
\* Define of the word later in the sequence is not inserted.
C36_BoundAtInvocation ==
    \A k \in DOMAIN trace :
        trace[k].op.op = "Word"
        => IF DefinesBefore(k, to_uppercase(trace[k].op.s)) # {}
           THEN BoundAtInvocation(k)
           ELSE FailedReference(k, UnknownWord(trace[k].op.s))

\* C36 (amended): as C36, for the words not named if, else, then, do, loop or
\* i; a reference to a word of one of these names fails with CompileOnlyWord
\* whether the word is defined or not, and nothing after it is inserted.
C36_BoundAtInvocationUnlessStructural ==
    \A k \in DOMAIN trace :
        trace[k].op.op = "Word"
        => IF Structural(trace[k].op.s)
           THEN FailedReference(k, CompileOnlyWord(trace[k].op.s))
           ELSE IF DefinesBefore(k, to_uppercase(trace[k].op.s)) # {}
           THEN BoundAtInvocation(k)
           ELSE FailedReference(k, UnknownWord(trace[k].op.s))

\* QUADRUPLE, defined as a reference to DOUBLE, has left 1, and after DOUBLE
\* was redefined it has left 2.
C36_Witness ==
    /\ Finished(M)
    /\ Len(input.ops) = 5
    /\ input.ops[2] = Define(QUADRUPLE, << Word(Double) >>)
    /\ input.ops[4] = Define(DOUBLE, << Push(2) >>)
    /\ error = NoError
    /\ stack = << 1, 2 >>

\* A reference to TEST before its Define has failed and TEST is not defined.
C36_WitnessUnknown ==
    /\ Finished(M)
    /\ input.ops = << Push(5), Word(TEST), Define(TEST, << Push(1) >>) >>
    /\ error = UnknownWord(TEST)
    /\ dictionary = << >>
    /\ stack = << 5 >>

RECURSIVE ActiveLoops(_)
\* The loops that are active after the first n operations of the history,
\* the innermost last, from the operations alone: a DO with start < limit
\* opens a loop at index start, a LOOP adds one to the index of the innermost
\* loop and closes it when the index reaches the limit.
ActiveLoops(n) ==
    IF n = 0 THEN << >>
    ELSE LET e == trace[n]
             open == ActiveLoops(n - 1)
         IN IF Entered(n)
            THEN Append(open, [do |-> n, index |-> Last(e.before),
                               limit |-> Last(Front(e.before))])
            ELSE IF e.op = Loop /\ open # << >>
            THEN IF Last(open).index + 1 >= Last(open).limit THEN Front(open)
                 ELSE [open EXCEPT ![Len(open)].index = @ + 1]
            ELSE open

\* C37: I pushes the index of the innermost loop that is active when it is
\* executed, in whatever call of eval it is executed: the inner loop's index
\* inside nested loops, the outer loop's index again once the inner loop has
\* completed, and the index of the caller's innermost loop in the body of a
\* word invoked from a loop body.
C37_SharedLoopStack ==
    \A k \in DOMAIN trace :
        (trace[k].op = I /\ ActiveLoops(k - 1) # << >>)
        => /\ trace[k].ok
           /\ trace[k].after = Append(trace[k].before, Last(ActiveLoops(k - 1)).index)
           /\ Len(trace[k].lcs) = Len(ActiveLoops(k - 1))

\* I in the body of a word invoked from a loop body has read the index of
\* the loop of the caller, on its second pass.
C37_Witness ==
    \E k \in DOMAIN trace :
        /\ trace[k].op = I
        /\ trace[k].ok
        /\ ActiveLoops(k - 1) # << >>
        /\ trace[k].depth > trace[Last(ActiveLoops(k - 1)).do].depth
        /\ Last(trace[k].after) = 1

\* I has read the index of the inner loop, and after the inner loop has
\* completed I has read the index of the outer loop, which differs.
C37_WitnessNested ==
    \E j, k \in DOMAIN trace :
        /\ j < k
        /\ trace[j].op = I /\ trace[k].op = I
        /\ Len(ActiveLoops(j - 1)) = 2
        /\ Len(ActiveLoops(k - 1)) = 1
        /\ ActiveLoops(k - 1)[1].do = ActiveLoops(j - 1)[1].do
        /\ Last(trace[j].after) # Last(trace[k].after)
        /\ Last(trace[k].after) = ActiveLoops(k - 1)[1].index

RECURSIVE WordsIn(_)
\* The names the operations refer to, at any depth.
WordsIn(ops) ==
    UNION { IF ops[k].op = "Word" THEN { to_uppercase(ops[k].s) }
            ELSE IF ops[k].op = "Define" THEN WordsIn(ops[k].body)
            ELSE IF ops[k].op = "IfElse"
            THEN WordsIn(ops[k].then_ops) \cup WordsIn(ops[k].else_ops)
            ELSE {} : k \in DOMAIN ops }

RECURSIVE DefinitionsIn(_)
\* The Define operations of the operations, at any depth.
DefinitionsIn(ops) ==
    UNION { IF ops[k].op = "Define" THEN { ops[k] } \cup DefinitionsIn(ops[k].body)
            ELSE IF ops[k].op = "IfElse"
            THEN DefinitionsIn(ops[k].then_ops) \cup DefinitionsIn(ops[k].else_ops)
            ELSE {} : k \in DOMAIN ops }

RECURSIVE RefersWithin(_, _, _, _)
\* A definition of a refers to b, directly or through at most n other words.
RefersWithin(a, b, ops, n) ==
    \E d \in DefinitionsIn(ops) :
        /\ d.name = a
        /\ \/ b \in WordsIn(d.body)
           \/ n > 0 /\ \E c \in WordsIn(d.body) : RefersWithin(c, b, ops, n - 1)

\* A word of the program refers to itself, directly or transitively.
SelfReferential(ops) ==
    \E d \in DefinitionsIn(ops) :
        RefersWithin(d.name, d.name, ops, Cardinality(DefinitionsIn(ops)))

\* eval has been called on the operations of an accepted program in which no
\* word refers to itself.
Running ==
    /\ Parsed
    /\ parsed.err = NoParseError
    /\ ~SelfReferential(parsed.ops)

\* The outermost call of eval has returned, with Ok or with an error.
Done == Parsed /\ calls = << >>

\* The loop-control stack after the operation k of the history.
LcsAfterOp(k) == IF k < Len(trace) THEN trace[k + 1].lcs ELSE loop_control_stack

\* Only DO and LOOP change the loop-control stack; a LOOP adds one to the
\* index of the innermost frame, which stays below the limit, and goes on at
\* the start of the loop in the same call of eval, or takes the frame off
\* when the index has reached the limit.
LoopProgress ==
    \A k \in DOMAIN trace :
        LET before == trace[k].lcs
            after == LcsAfterOp(k)
            n == Len(before)
        IN /\ trace[k].op \notin { Do, Loop } => after = before
           /\ trace[k].op = Do => (after = before \/ Front(after) = before)
           /\ (trace[k].op = Loop /\ n = 0) => (~trace[k].ok /\ after = before)
           /\ (trace[k].op = Loop /\ n > 0)
              => /\ trace[k].ok
                 /\ before[n][2] < before[n][3]
                 /\ IF before[n][2] + 1 < before[n][3]
                    THEN /\ after = [before EXCEPT ![n][2] = @ + 1]
                         /\ k < Len(trace)
                            => /\ trace[k + 1].depth = trace[k].depth
                               /\ trace[k + 1].idx = before[n][1]
                         /\ k = Len(trace) => Len(calls) = trace[k].depth
                    ELSE after = Front(before)

\* C38: the evaluation of a program parse accepted in which no word refers to
\* itself returns, with Ok or with an error; meanwhile only DO and LOOP
\* change the loop-control stack, each LOOP moves the index of its frame one
\* step toward the limit, and it goes back to the start of the loop in the
\* same call of eval.
C38_Terminates ==
    /\ []LoopProgress
    /\ Running ~> Done

\* A loop of three passes has run and eval has returned Ok.
C38_Witness ==
    /\ Running
    /\ Done
    /\ error = NoError
    /\ Cardinality({ k \in DOMAIN trace : trace[k].op = Loop }) = 3
    /\ stack = << 0, 1, 2 >>

\* A word that refers to itself is being evaluated at the depth bound.
C38_WitnessSelfReferential ==
    /\ Parsed
    /\ parsed.err = NoParseError
    /\ SelfReferential(parsed.ops)
    /\ Len(calls) = MaxCallDepth

\* A step of parse or of eval and the dictionary: only a Define step changes
\* it, and only at the name it defines; a Define step changes neither stack.
DictionaryFrame ==
    /\ parsed' # parsed => dictionary' = dictionary
    /\ error' # NoError => dictionary' = dictionary
    /\ dictionary' # dictionary
       => /\ At("Define")
          /\ Len(trace') = Len(trace) + 1
          /\ DOMAIN dictionary' = DOMAIN dictionary \cup { CurOp(M).name }
          /\ \A n \in DOMAIN dictionary :
                n # CurOp(M).name => dictionary'[n] = dictionary[n]
    /\ (At("Define") /\ Len(trace') = Len(trace) + 1)
       => /\ dictionary'[CurOp(M).name] = CurOp(M).body
          /\ stack' = stack
          /\ loop_control_stack' = loop_control_stack
          /\ error' = NoError

\* C39: the dictionary is changed only by the step that evaluates a Define,
\* which changes the entry of its own name and nothing else of the
\* dictionary, of the operand stack or of the loop-control stack; parse and
\* every other operation, failing ones included, leave the dictionary as it
\* is.
C39_DictionaryFrame == [][DictionaryFrame]_vars

\* DOUBLE has been redefined with 7 and 1 on the stack and TEST defined; the
\* entry of TEST is the one its own Define gave it.
C39_Witness ==
    /\ Parsed
    /\ DOMAIN dictionary = { DOUBLE, TEST }
    /\ dictionary[DOUBLE] = << Push(2) >>
    /\ Len(dictionary[TEST]) = 1
    /\ dictionary[TEST][1].op = "Word"
    /\ stack = << 7, 3 >>
    /\ \E k \in DOMAIN trace :
        /\ trace[k].op.op = "Define"
        /\ trace[k].before = << 7, 1 >>
        /\ trace[k].after = << 7, 1 >>

\* An operation has failed after a definition and the entry is still there.
C39_WitnessFailing ==
    /\ Parsed
    /\ error # NoError
    /\ DOMAIN dictionary = { DOUBLE }
    /\ dictionary[DOUBLE] = << Push(1) >>

====
